---- MODULE Spec2Model ----
(***************************************************************************)
(* Verification model of the media sanitization engine:                    *)
(*   - safewipe-engine: device model, SanitizationEngine (wipe.rs),        *)
(*     SafeWipeController (sanitization.rs), SafeWipeSDK (sdk.rs)          *)
(*   - safewipe-sdk: SafeWipeClient (lib.rs)                               *)
(*   - src/devices/hdd: HddEraser                                          *)
(*   - src/security/certificate.rs, src/core/engine.rs: issuer and         *)
(*     erasure certificates                                                *)
(*   - overwrite passes write by write (wipe.rs, src/hardware/sanitizer.rs,*)
(*     src/sanitization.rs) and the progress broadcast channel             *)
(***************************************************************************)
EXTENDS Integers, Sequences, FiniteSets, TLC

VARIABLES
    last,        \* engine level: the last completed call with its inputs and outcome
    operations,  \* SafeWipeClient.operations: operation id -> WipeOperation
    tasks,       \* SafeWipeClient: position of each start_wipe call in flight
    cancelled,   \* history: operation ids whose cancel_operation returned success
    observed,    \* history: the last terminal copy get_operation_status returned, per id
    active_operations, \* SafeWipeSDK.active_operations: operation id -> report
    spawned,     \* SafeWipeSDK: background tasks spawned by execute_sanitization_plan
    ca,          \* WipeEngine.certificate_authority (in memory), NoCA when no engine runs
    ca_file,     \* contents of certificates/ca.json
    keys_made,   \* number of RSA keypairs generated so far
    issued,      \* history: the issuer's key and counter at each issued certificate
    cert,        \* the certificate under examination (as issued or as altered)
    cert_orig,   \* the certificate as issued
    starts,      \* number of process starts so far
    intact,      \* history: nothing but save_to_file has touched ca.json, and no write failed
    identities,  \* history: the keys ever written to ca.json
    boot,        \* history: what the running engine found in ca.json when it was built,
                 \* and whether no identity had been saved before (the first run)
    pass_exec,   \* the overwrite pass in execution: its inputs, position and outcome
    progress,    \* the progress events the pass in execution has emitted, in order
    passes_run,  \* number of passes begun so far
    stream,      \* history: every event sent on the progress broadcast channel
    next,        \* the subscriber's position on the broadcast channel
    received,    \* history: the positions of the events the subscriber was handed
    engines,     \* the WipeEngine instances of the process: issuer and mutex holder
    issuing,     \* the execute_secure_wipe calls that reached the certificate block
    persisted    \* history: the counters written to certificates/ca.json, in order

vars == <<last, operations, tasks, cancelled, observed, active_operations, spawned,
          ca, ca_file, keys_made, issued, cert, cert_orig, starts, intact, identities, boot,
          pass_exec, progress, passes_run, stream, next, received,
          engines, issuing, persisted>>

engineVars == <<last>>
jobVars == <<operations, tasks, cancelled, observed, active_operations, spawned>>
certVars == <<ca, ca_file, keys_made, issued, cert, cert_orig, starts, intact, identities,
              boot>>
passVars == <<pass_exec, progress, passes_run, stream, next, received>>
issuerVars == <<engines, issuing, persisted>>

(***************************************************************************)
(* Bounds of the model                                                     *)
(***************************************************************************)
MaxSize == 1
MaxPlanDevices == 2

(***************************************************************************)
(* Devices (safewipe-engine/src/device.rs)                                 *)
(***************************************************************************)
DriveType == {"HDD", "SSD", "Removable", "Unknown"}
SanitizationMethod == {"Clear", "Purge", "Destroy"}

\* disk names as reported by the platform: a Unix block device, an NVMe
\* namespace, a Windows drive letter, a volume label or plain file
Paths == {"/dev/sda", "/dev/nvme0n1", "C:", "disk.img"}

ContainsColon(p) == p \in {"C:"}
StartsWithDev(p) == p \in {"/dev/sda", "/dev/nvme0n1"}
ContainsNvme(p) == p \in {"/dev/nvme0n1"}
ContainsSsd(p) == FALSE
ContainsUsb(p) == FALSE

\* sizes are counted in units of 64_000_000_000 / RemovableLimit bytes
RemovableLimit == 1

VendorCapabilities ==
    [supports_ata_secure_erase: BOOLEAN, supports_nvme_sanitize: BOOLEAN,
     supports_crypto_erase: BOOLEAN, supports_enhanced_erase: BOOLEAN]

DefaultCapabilities ==
    [supports_ata_secure_erase |-> FALSE, supports_nvme_sanitize |-> FALSE,
     supports_crypto_erase |-> FALSE, supports_enhanced_erase |-> FALSE]

\* every Device value a caller of the engine can construct
Device ==
    [path: Paths, size: 0..MaxSize, device_type: DriveType,
     capabilities: VendorCapabilities, is_system_drive: BOOLEAN]

supports_secure_erase(d) ==
    CASE d.device_type = "SSD" ->
            \/ d.capabilities.supports_ata_secure_erase
            \/ d.capabilities.supports_nvme_sanitize
            \/ d.capabilities.supports_crypto_erase
      [] d.device_type = "HDD" -> d.capabilities.supports_ata_secure_erase
      [] OTHER -> FALSE

determine_drive_type(p, size) ==
    IF size < RemovableLimit THEN "Removable"
    ELSE IF ContainsNvme(p) THEN "SSD"
    ELSE IF ContainsSsd(p) THEN "SSD"
    ELSE "HDD"

determine_interface(p) ==
    IF ContainsNvme(p) THEN "NVMe"
    ELSE IF ContainsUsb(p) THEN "USB"
    ELSE "SATA"

detect_vendor_capabilities(t, i) ==
    CASE t = "SSD" /\ i = "NVMe" ->
            [DefaultCapabilities EXCEPT !.supports_nvme_sanitize = TRUE,
                                        !.supports_crypto_erase = TRUE]
      [] t = "SSD" /\ i = "SATA" ->
            [DefaultCapabilities EXCEPT !.supports_ata_secure_erase = TRUE,
                                        !.supports_crypto_erase = TRUE]
      [] t = "HDD" /\ i = "SATA" ->
            [DefaultCapabilities EXCEPT !.supports_ata_secure_erase = TRUE]
      [] OTHER -> DefaultCapabilities

\* the Windows rule; the Unix rule ("/", "/boot...", "/usr...") matches no disk name of Paths
is_system_drive(p) == p \in {"C:"}

create_device_from_disk(p, size) ==
    [path |-> p, size |-> size,
     device_type |-> determine_drive_type(p, size),
     capabilities |-> detect_vendor_capabilities(determine_drive_type(p, size),
                                                 determine_interface(p)),
     is_system_drive |-> is_system_drive(p)]

\* every Device value DriveDetector::list_devices can return
ScannedDevices == {create_device_from_disk(p, s) : p \in Paths, s \in 0..MaxSize}

(***************************************************************************)
(* SanitizationEngine (safewipe-engine/src/wipe.rs)                        *)
(*                                                                         *)
(* What the platform answers during one call is an Env record:             *)
(*   fail, at: the step of a pass that fails (open, write, flush+sync) and  *)
(*             the pass (1..3) in which it does; a call sees at most one   *)
(*             such failure, since it either ends the call or, swallowed,  *)
(*             can only happen in the last pass                            *)
(*   cfail:  the privileged command (1..2) that exits unsuccessfully       *)
(*   verify: what the verification read finds                              *)
(* An outcome records the Result (ok), the WipeResult fields, and what was *)
(* done to the device: io (the device was opened and written or read) and  *)
(* cmds (the privileged commands issued, in order).                        *)
(***************************************************************************)
Env == [fail: {"none", "open", "write", "sync"}, at: 1..3, cfail: 0..2,
        verify: {"clean", "openfail", "dirty"}]

Fails(e, step, pass) == e.fail = step /\ e.at = pass

Pass(ok, io, err) == [ok |-> ok, io |-> io, err |-> err]

\* Option::None of a result
NoResult == [none |-> TRUE]

\* an engine that was given real device access
RealDeviceAccess == TRUE

\* the default of SanitizationEngine::new
DefaultAllowRealDevices == FALSE

\* one pass with a fixed pattern
overwrite_with_pattern(d, allow_real_devices, e, pass) ==
    IF allow_real_devices
    THEN IF Fails(e, "open", pass) THEN Pass(FALSE, FALSE, "Cannot access device")
         ELSE IF d.size > 0 /\ Fails(e, "write", pass) THEN Pass(FALSE, TRUE, "Write failed")
         ELSE IF Fails(e, "sync", pass) THEN Pass(FALSE, TRUE, "sync failed")
         ELSE Pass(TRUE, TRUE, "None")
    ELSE Pass(TRUE, FALSE, "None")

\* one pass with random data
overwrite_with_random(d, allow_real_devices, e, pass) ==
    IF ~allow_real_devices /\ (ContainsColon(d.path) \/ StartsWithDev(d.path))
    THEN Pass(TRUE, FALSE, "None")
    ELSE IF Fails(e, "open", pass) THEN Pass(TRUE, FALSE, "None")
         ELSE IF d.size > 0 /\ Fails(e, "write", pass) THEN Pass(FALSE, TRUE, "Write failed")
         ELSE IF Fails(e, "sync", pass) THEN Pass(FALSE, TRUE, "sync failed")
         ELSE Pass(TRUE, TRUE, "None")

\* p, then q unless p failed
Then(p, q) == IF p.ok THEN Pass(q.ok, p.io \/ q.io, q.err) ELSE p

perform_dod_5220_wipe(d, allow_real_devices, e) ==
    Then(Then(overwrite_with_pattern(d, allow_real_devices, e, 1),
              overwrite_with_pattern(d, allow_real_devices, e, 2)),
         overwrite_with_random(d, allow_real_devices, e, 3))

ClearPatternFor(d) ==
    CASE d.device_type = "SSD" -> "Random"
      [] d.device_type = "HDD" -> "DoD5220"
      [] OTHER -> "Zeros"

execute_clear_pattern(d, allow_real_devices, e) ==
    CASE ClearPatternFor(d) = "Zeros" -> overwrite_with_pattern(d, allow_real_devices, e, 1)
      [] ClearPatternFor(d) = "Random" -> overwrite_with_random(d, allow_real_devices, e, 1)
      [] OTHER -> perform_dod_5220_wipe(d, allow_real_devices, e)

PatternName(d) ==
    CASE ClearPatternFor(d) = "Zeros" -> "zeros"
      [] ClearPatternFor(d) = "Random" -> "random"
      [] OTHER -> "DoD 5220.22-M (3 passes)"

\* [passed, io]
verify_clear_operation(d, allow_real_devices, e) ==
    IF ~allow_real_devices THEN [passed |-> TRUE, io |-> FALSE]
    ELSE IF e.verify = "openfail" THEN [passed |-> FALSE, io |-> FALSE]
    ELSE [passed |-> e.verify = "clean", io |-> TRUE]

Outcome(ok, status, vp, err, patterns, io, cmds) ==
    [ok |-> ok, status |-> status, verification_passed |-> vp, error_message |-> err,
     patterns_used |-> patterns, io |-> io, cmds |-> cmds]

\* Err(e): the WipeResult is dropped, only the error reaches the caller
Failure(err, patterns, io, cmds) == Outcome(FALSE, "None", FALSE, err, patterns, io, cmds)

perform_clear_operation(d, allow_real_devices, e) ==
    LET w == execute_clear_pattern(d, allow_real_devices, e)
        v == verify_clear_operation(d, allow_real_devices, e)
    IN  IF ~w.ok THEN Failure(w.err, <<PatternName(d)>>, w.io, <<>>)
        ELSE Outcome(TRUE,
                     IF v.passed THEN "Completed" ELSE "Failed",
                     v.passed,
                     "None",
                     <<PatternName(d)>>, w.io \/ v.io, <<>>)

\* Ok(method) as the method's name, Err as "NoPurgeMethod"
select_purge_method(d) ==
    CASE d.device_type = "SSD" ->
            IF d.capabilities.supports_crypto_erase THEN "CryptoErase"
            ELSE IF d.capabilities.supports_nvme_sanitize THEN "NvmeSanitize"
            ELSE IF d.capabilities.supports_ata_secure_erase THEN "AtaEnhancedSecureErase"
            ELSE "NoPurgeMethod"
      [] d.device_type = "HDD" ->
            IF d.capabilities.supports_ata_secure_erase
            THEN IF d.capabilities.supports_enhanced_erase
                 THEN "AtaEnhancedSecureErase" ELSE "AtaSecureErase"
            ELSE "NoPurgeMethod"
      [] d.device_type = "Removable" ->
            IF d.capabilities.supports_crypto_erase THEN "CryptoErase"
            ELSE "VendorSpecific"
      [] OTHER -> "NoPurgeMethod"

\* the commands of a purge method, in the order they are run; [ok, cmds]
Commands(ok, cmds) == [ok |-> ok, cmds |-> cmds]

\* two commands, the second only after the first succeeded
TwoCommands(c1, c2, e) ==
    IF e.cfail = 1 THEN Commands(FALSE, <<c1>>)
    ELSE IF e.cfail = 2 THEN Commands(FALSE, <<c1, c2>>)
    ELSE Commands(TRUE, <<c1, c2>>)

OneCommand(c, e) == Commands(e.cfail # 1, <<c>>)

execute_ata_secure_erase(d, allow_real_devices, e) ==
    IF ~allow_real_devices THEN Commands(TRUE, <<>>)
    ELSE TwoCommands("hdparm --security-set-pass", "hdparm --security-erase", e)

execute_ata_enhanced_secure_erase(d, allow_real_devices, e) ==
    IF ~allow_real_devices THEN Commands(TRUE, <<>>)
    ELSE TwoCommands("hdparm --security-set-pass", "hdparm --security-erase-enhanced", e)

execute_nvme_sanitize(d, allow_real_devices, e) ==
    IF ~allow_real_devices THEN Commands(TRUE, <<>>)
    ELSE OneCommand("nvme sanitize --sanitize block", e)

\* on an SSD a failed "nvme format --ses 2" is followed by blkdiscard
execute_crypto_erase(d, allow_real_devices, e) ==
    IF ~allow_real_devices THEN Commands(TRUE, <<>>)
    ELSE CASE d.device_type = "SSD" ->
                IF e.cfail # 1 THEN Commands(TRUE, <<"nvme format --ses 2">>)
                ELSE Commands(e.cfail # 2, <<"nvme format --ses 2", "blkdiscard">>)
           [] d.device_type = "Removable" -> OneCommand("blkdiscard", e)
           [] OTHER -> Commands(FALSE, <<>>)

execute_vendor_specific_purge(d, allow_real_devices, e) ==
    IF ~allow_real_devices THEN Commands(TRUE, <<>>)
    ELSE IF d.device_type \in {"Removable", "SSD"} THEN OneCommand("blkdiscard", e)
    ELSE Commands(FALSE, <<>>)

PurgePatternName(m) ==
    CASE m = "AtaSecureErase" -> "ATA Secure Erase"
      [] m = "AtaEnhancedSecureErase" -> "ATA Enhanced Secure Erase"
      [] m = "NvmeSanitize" -> "NVMe Sanitize"
      [] m = "CryptoErase" -> "Cryptographic Erase"
      [] OTHER -> "Vendor-specific purge with removable-secure-erase"

perform_purge_operation(d, allow_real_devices, e) ==
    LET m == select_purge_method(d)
        c == CASE m = "AtaSecureErase" -> execute_ata_secure_erase(d, allow_real_devices, e)
               [] m = "AtaEnhancedSecureErase" ->
                      execute_ata_enhanced_secure_erase(d, allow_real_devices, e)
               [] m = "NvmeSanitize" -> execute_nvme_sanitize(d, allow_real_devices, e)
               [] m = "CryptoErase" -> execute_crypto_erase(d, allow_real_devices, e)
               [] OTHER -> execute_vendor_specific_purge(d, allow_real_devices, e)
    IN  IF m = "NoPurgeMethod"
        THEN Failure("does not support any secure purge methods", <<>>, FALSE, <<>>)
        ELSE IF ~c.ok
        THEN Failure("command failed", <<PurgePatternName(m)>>, FALSE, c.cmds)
        ELSE Outcome(TRUE, "Completed", TRUE, "None", <<PurgePatternName(m)>>, FALSE, c.cmds)

perform_destroy_operation(d) ==
    Outcome(TRUE, "Completed", TRUE, "None", <<"Physical Destruction Instructions">>,
            FALSE, <<>>)

sanitize_device(d, method, allow_real_devices, e) ==
    IF d.is_system_drive
    THEN Failure("Cannot sanitize system drive for safety reasons", <<>>, FALSE, <<>>)
    ELSE CASE method = "Clear" -> perform_clear_operation(d, allow_real_devices, e)
           [] method = "Purge" -> perform_purge_operation(d, allow_real_devices, e)
           [] OTHER -> perform_destroy_operation(d)

(***************************************************************************)
(* SafeWipeController (safewipe-engine/src/sanitization.rs) and the plan   *)
(* creation of SafeWipeSDK (safewipe-engine/src/sdk.rs)                    *)
(***************************************************************************)
\* Path::file_name: the last component; a bare drive letter has none
extract_device_name(p) ==
    CASE p = "/dev/sda" -> "sda"
      [] p = "/dev/nvme0n1" -> "nvme0n1"
      [] p = "C:" -> ""
      [] OTHER -> p

DeviceNames == {extract_device_name(p) : p \in Paths}

RECURSIVE DeviceWarnings(_, _)
DeviceWarnings(devices, method) ==
    IF devices = <<>> THEN <<>>
    ELSE LET d == Head(devices)
             w == IF d.is_system_drive THEN <<"is a system drive and will be skipped">>
                  ELSE IF method = "Purge" /\ ~supports_secure_erase(d)
                       THEN <<"does not support secure purge methods">>
                       ELSE <<>>
         IN  w \o DeviceWarnings(Tail(devices), method)

GeneralWarnings(method) ==
    IF method \in {"Clear", "Purge"}
    THEN <<"This operation will PERMANENTLY destroy all data",
           "Ensure you have backups of any important data",
           "This operation cannot be undone">>
    ELSE <<"Physical destruction requires manual intervention",
           "Follow all safety protocols when handling storage media">>

\* always Ok(plan): a system drive adds a warning and stays in plan.devices
create_sanitization_plan(devices, method) ==
    [devices |-> devices, method |-> method,
     safety_warnings |-> DeviceWarnings(devices, method) \o GeneralWarnings(method)]

PlanOk(plan) == [ok |-> TRUE, plan |-> plan, err |-> "None"]
PlanErr(err) == [ok |-> FALSE, plan |-> "None", err |-> err]

\* SafeWipeSDK::create_sanitization_plan over the devices the scan returns
sdk_create_sanitization_plan(all_devices, device_names, method) ==
    LET Selected(d) == extract_device_name(d.path) \in device_names
        selected_devices == SelectSeq(all_devices, Selected)
    IN  IF selected_devices = <<>> THEN PlanErr("DeviceNotFound")
        ELSE IF \E i \in 1..Len(selected_devices) : selected_devices[i].is_system_drive
        THEN PlanErr("SystemDriveProtected")
        ELSE PlanOk(create_sanitization_plan(selected_devices, method))

\* SafeWipeController::execute_plan, one device of the plan per step.
\* A run is [plan, next, results, sanitized, overall_success]:
\*   next: index of the device the loop handles next
\*   results: the WipeResult pushed for each device that was not skipped
\*   sanitized: the devices handed to the engine
StartRun(plan) ==
    [plan |-> plan, next |-> 1, results |-> <<>>, sanitized |-> <<>>,
     overall_success |-> TRUE]

RunFinished(run) == run.next > Len(run.plan.devices)

\* the result pushed for an Err of the engine
failed_result(o) ==
    [o EXCEPT !.status = "Failed", !.verification_passed = FALSE,
              !.patterns_used = <<>>]

execute_plan_step(run, allow_real_devices, e) ==
    LET d == run.plan.devices[run.next]
        o == sanitize_device(d, run.plan.method, allow_real_devices, e)
    IN  IF d.is_system_drive THEN [run EXCEPT !.next = @ + 1]
        ELSE [run EXCEPT
                !.next = @ + 1,
                !.sanitized = Append(@, d),
                !.results = Append(@, IF o.ok THEN o ELSE failed_result(o)),
                !.overall_success = @ /\ o.ok /\ o.status = "Completed"]

(***************************************************************************)
(* HddEraser::ata_secure_erase (src/devices/hdd/mod.rs).  The answers of   *)
(* the ATA interface are an AtaEnv record.                                 *)
(***************************************************************************)
AtaEnv == [ata_new: BOOLEAN, drive_info: BOOLEAN, security_supported: BOOLEAN,
           security_erase: BOOLEAN, fail: {"none", "open", "write", "sync"}, at: 1..3]

\* one software pass of HddEraser::overwrite_device
overwrite_device(size, a, pass) ==
    IF Fails(a, "open", pass) THEN Pass(FALSE, FALSE, "open failed")
    ELSE IF size > 0 /\ Fails(a, "write", pass) THEN Pass(FALSE, TRUE, "write failed")
    ELSE IF Fails(a, "sync", pass) THEN Pass(FALSE, TRUE, "sync failed")
    ELSE Pass(TRUE, TRUE, "None")

\* the number of software passes started before the first failure
dod_5220_22m_erase(size, a) ==
    LET p1 == overwrite_device(size, a, 1)
        p2 == overwrite_device(size, a, 2)
        p3 == overwrite_device(size, a, 3)
    IN  IF ~p1.ok THEN [ok |-> FALSE, software_passes |-> IF p1.io THEN 1 ELSE 0]
        ELSE IF ~p2.ok THEN [ok |-> FALSE, software_passes |-> IF p2.io THEN 2 ELSE 1]
        ELSE IF ~p3.ok THEN [ok |-> FALSE, software_passes |-> IF p3.io THEN 3 ELSE 2]
        ELSE [ok |-> TRUE, software_passes |-> 3]

\* [ok, hardware_erases, software_passes]
ata_secure_erase(size, enhanced, a) ==
    IF a.ata_new
    THEN IF ~a.drive_info
         THEN [ok |-> FALSE, hardware_erases |-> 0, software_passes |-> 0]
         ELSE IF ~a.security_supported
         THEN [ok |-> FALSE, hardware_erases |-> 0, software_passes |-> 0]
         ELSE [ok |-> a.security_erase, hardware_erases |-> 1, software_passes |-> 0]
    ELSE LET s == dod_5220_22m_erase(size, a)
         IN  [ok |-> s.ok, hardware_erases |-> 0, software_passes |-> s.software_passes]

(***************************************************************************)
(* Engine level: calls of the public operations, one at a time.  `last`    *)
(* keeps the inputs and the outcome of the latest call.                    *)
(***************************************************************************)
InitEngine == last = [op |-> "none"]
InitJob ==
    /\ operations = <<>>
    /\ tasks = <<>>
    /\ cancelled = {}
    /\ observed = <<>>
    /\ active_operations = <<>>
    /\ spawned = <<>>
\* no engine; no certificate
NoCA == [none |-> TRUE]
NoCert == [none |-> TRUE]

\* certificates/ca.json: absent, unreadable, or the serialized issuer
Missing == [file |-> "missing"]
Corrupt == [file |-> "corrupt"]
Saved(authority) == [file |-> "ok", content |-> authority]

InitCert ==
    /\ ca = NoCA
    /\ ca_file = Missing
    /\ keys_made = 0
    /\ issued = <<>>
    /\ cert = NoCert
    /\ cert_orig = NoCert
    /\ starts = 0
    /\ intact = TRUE
    /\ identities = {}
    /\ boot = [first |-> TRUE, file |-> Missing]

\* no pass in execution; nothing sent, nothing received
NoPass == [pc |-> "idle"]

InitPass ==
    /\ pass_exec = NoPass
    /\ progress = <<>>
    /\ passes_run = 0
    /\ stream = <<>>
    /\ next = 0
    /\ received = {}

InitIssuer ==
    /\ engines = <<>>
    /\ issuing = <<>>
    /\ persisted = <<>>

Init == InitEngine /\ InitJob /\ InitCert /\ InitPass /\ InitIssuer

\* the sequences of at most n elements of S
RECURSIVE SeqsUpTo(_, _)
SeqsUpTo(S, n) ==
    IF n = 0 THEN {<<>>}
    ELSE LET shorter == SeqsUpTo(S, n - 1)
         IN  shorter \cup {Append(s, x) : s \in shorter, x \in S}

\* SafeWipeController::create_sanitization_plan called with scanned devices
ControllerCreatePlan ==
    /\ last.op = "none"
    /\ \E devices \in SeqsUpTo(ScannedDevices, MaxPlanDevices), method \in SanitizationMethod :
        /\ last' = [op |-> "create_sanitization_plan", via |-> "controller",
                    devices |-> devices, method |-> method,
                    result |-> PlanOk(create_sanitization_plan(devices, method))]
        /\ UNCHANGED <<jobVars, certVars, passVars, issuerVars>>

\* SafeWipeSDK::create_sanitization_plan: the scan returns all_devices
SdkCreatePlan ==
    /\ last.op = "none"
    /\ \E all_devices \in SeqsUpTo(ScannedDevices, MaxPlanDevices),
       device_names \in SUBSET DeviceNames, method \in SanitizationMethod :
        /\ last' = [op |-> "create_sanitization_plan", via |-> "sdk",
                    devices |-> all_devices, method |-> method,
                    result |-> sdk_create_sanitization_plan(all_devices, device_names, method)]
        /\ UNCHANGED <<jobVars, certVars, passVars, issuerVars>>

\* SafeWipeController::execute_plan on the plan just created: the loop's start
ExecutePlanStart ==
    /\ last.op = "create_sanitization_plan"
    /\ last.result.ok
    /\ last' = [op |-> "execute_plan", allow_real_devices |-> DefaultAllowRealDevices,
                run |-> StartRun(last.result.plan)]
    /\ UNCHANGED <<jobVars, certVars, passVars, issuerVars>>

\* one iteration of the loop over plan.devices
ExecutePlanStep ==
    /\ last.op = "execute_plan"
    /\ ~RunFinished(last.run)
    /\ \E e \in Env :
          last' = [last EXCEPT !.run = execute_plan_step(@, last.allow_real_devices, e)]
    /\ UNCHANGED <<jobVars, certVars, passVars, issuerVars>>

\* SanitizationEngine::sanitize_device on any device a caller constructs
EngineSanitize ==
    /\ last.op = "none"
    /\ \E d \in Device, method \in SanitizationMethod, allow_real_devices \in BOOLEAN, e \in Env :
        /\ last' = [op |-> "sanitize_device", device |-> d, method |-> method,
                    allow_real_devices |-> allow_real_devices,
                    outcome |-> sanitize_device(d, method, allow_real_devices, e)]
        /\ UNCHANGED <<jobVars, certVars, passVars, issuerVars>>

\* HddEraser::ata_secure_erase: a Purge request served by the HDD eraser
HddAtaSecureErase ==
    /\ last.op = "none"
    /\ \E size \in 0..MaxSize, enhanced \in BOOLEAN, a \in AtaEnv :
        /\ last' = [op |-> "hdd.ata_secure_erase", size |-> size, enhanced |-> enhanced,
                    outcome |-> ata_secure_erase(size, enhanced, a)]
        /\ UNCHANGED <<jobVars, certVars, passVars, issuerVars>>

\* the caller takes the outcome; the next call can be made
Return ==
    /\ last.op # "none"
    /\ last.op = "execute_plan" => RunFinished(last.run)
    /\ last.op = "wait_for_operation" => last.pc = "returned"
    /\ last' = [op |-> "none"]
    /\ UNCHANGED <<jobVars, certVars, passVars, issuerVars>>

NextEngine ==
    \/ ControllerCreatePlan
    \/ SdkCreatePlan
    \/ ExecutePlanStart
    \/ ExecutePlanStep
    \/ EngineSanitize
    \/ HddAtaSecureErase
    \/ Return

SpecEngine == Init /\ [][NextEngine]_vars

(***************************************************************************)
(* Properties of the engine level                                          *)
(***************************************************************************)
AnySystemDrive(devices) == \E i \in 1..Len(devices) : devices[i].is_system_drive

\* C1: plan creation never returns a plan that contains a system drive, for
\* every method, and no run of a plan hands a system drive to the engine.
C1_NoPlanWithSystemDrive ==
    /\ (last.op = "create_sanitization_plan" /\ last.result.ok)
          => ~AnySystemDrive(last.result.plan.devices)
    /\ last.op = "execute_plan"
          => /\ ~AnySystemDrive(last.run.plan.devices)
             /\ ~AnySystemDrive(last.run.sanitized)

\* the commands that erase, as opposed to the one that sets the ATA password
ErasingCommands(cmds) ==
    Cardinality({i \in 1..Len(cmds) : cmds[i] # "hdparm --security-set-pass"})

HasPurgeCapability(d) ==
    \/ d.capabilities.supports_crypto_erase
    \/ d.capabilities.supports_nvme_sanitize
    \/ d.capabilities.supports_ata_secure_erase
    \/ d.capabilities.supports_enhanced_erase

\* C2: a Purge of a non-system device runs at most one hardware-sanitize or
\* crypto-erase command and never a software overwrite or a second,
\* lower-grade command; a device with no purge capability is refused.
C2_PurgeNeverFallsBack ==
    /\ last.op = "hdd.ata_secure_erase" => last.outcome.software_passes = 0
    /\ (last.op = "sanitize_device" /\ last.method = "Purge"
            /\ ~last.device.is_system_drive)
          => /\ ~last.outcome.io
             /\ ErasingCommands(last.outcome.cmds) <= 1
             /\ ~HasPurgeCapability(last.device)
                   => /\ ~last.outcome.ok
                      /\ last.outcome.cmds = <<>>

\* C3: an engine whose allow_real_devices is false opens no device and runs
\* no privileged command, for every method, pass and device path.
C3_NoDeviceAccessWhenNotAllowed ==
    /\ (last.op = "sanitize_device" /\ ~last.allow_real_devices)
          => /\ ~last.outcome.io
             /\ last.outcome.cmds = <<>>
    /\ (last.op = "execute_plan" /\ ~last.allow_real_devices)
          => \A i \in 1..Len(last.run.results) :
                /\ ~last.run.results[i].io
                /\ last.run.results[i].cmds = <<>>

\* C11: when every pass of a Clear completed and the verification then did
\* not pass, the result the engine returns has status Completed (with
\* verification_passed false), not Failed.
C11_FailedVerificationCompleted ==
    (last.op = "sanitize_device" /\ last.method = "Clear" /\ last.outcome.ok
        /\ ~last.outcome.verification_passed)
      => last.outcome.status = "Completed"

(***************************************************************************)
(* SecureSanitizer::execute_wipe (src/hardware/sanitizer.rs).  What the    *)
(* drive answers during one call is a SanitizerEnv record:                 *)
(*   drive:       DriveInterface::new / identify_device / security state   *)
(*   has_hpa:     the geometry reports a host protected area               *)
(*   unlock_hpa:  the answer of unlock_hpa, and of the identify after it   *)
(*   hpa_after:   the geometry read after the unlock still reports one     *)
(*   pass_failed: the pass whose write fails (0: none) and how             *)
(*   verify:      what the verification read finds                         *)
(***************************************************************************)
SanitizationStandard == {"NIST80088Clear", "NIST80088Purge", "DoD522022M"}
TargetType == {"FullDisk", "ComprehensiveFull", "HiddenAreas", "Partition"}

WipeRequest ==
    [standard: SanitizationStandard, target_type: TargetType, verify_erasure: BOOLEAN]

\* the number of patterns of get_patterns_for_standard
PatternCount(standard) ==
    CASE standard = "NIST80088Clear" -> 1
      [] standard = "NIST80088Purge" -> 3
      [] OTHER -> 4

SanitizerEnv ==
    [drive: {"ok", "open_failed", "identify_failed", "locked"},
     has_hpa: BOOLEAN,
     unlock_hpa: {"unlocked", "identify_failed", "none", "failed"},
     hpa_after: BOOLEAN,
     pass_failed: 0..PatternCount("DoD522022M"),
     pass_error: {"AccessDenied", "HardwareError"},
     verify: {"match", "mismatch", "open_failed", "seek_failed", "read_failed"}]

\* the last pattern is one byte long (the random pattern is a whole buffer)
LastPatternIsOneByte(standard) == standard # "NIST80088Purge"

WipeErr(code) == [ok |-> FALSE, code |-> code, result |-> NoResult]

WipeOk(passes, validation_result, has_hpa) ==
    [ok |-> TRUE, code |-> "None",
     result |-> [success |-> TRUE, error_message |-> "None",
                 passes_completed |-> passes,
                 validation_result |-> validation_result,
                 drive_geometry |-> [has_hpa |-> has_hpa]]]

\* Ok(ValidationResult) as [pattern_matches], Err as the error code
verify_erasure(standard, s) ==
    CASE s.verify = "open_failed" -> WipeErr("AccessDenied")
      [] s.verify = "seek_failed" -> WipeErr("HardwareError")
      [] s.verify = "read_failed" -> WipeErr("VerificationFailed")
      [] OTHER ->
            [ok |-> TRUE, code |-> "None",
             result |-> [pattern_matches |->
                            ~(LastPatternIsOneByte(standard) /\ s.verify = "mismatch")]]

\* geometry.has_hpa after step 3
ActualHasHpa(request, s) ==
    IF request.target_type \in {"ComprehensiveFull", "HiddenAreas"}
          /\ s.has_hpa /\ s.unlock_hpa = "unlocked"
    THEN s.hpa_after
    ELSE s.has_hpa

execute_wipe(request, s) ==
    LET unlocking == request.target_type \in {"ComprehensiveFull", "HiddenAreas"} /\ s.has_hpa
        v == verify_erasure(request.standard, s)
    IN  CASE s.drive = "open_failed" -> WipeErr("AccessDenied")
          [] s.drive = "identify_failed" -> WipeErr("HardwareError")
          [] s.drive = "locked" -> WipeErr("SecurityLocked")
          [] unlocking /\ s.unlock_hpa = "identify_failed" -> WipeErr("HardwareError")
          [] unlocking /\ s.unlock_hpa = "failed" /\ request.target_type = "HiddenAreas" ->
                WipeErr("HPAUnlockFailed")
          [] request.target_type = "HiddenAreas" /\ ~ActualHasHpa(request, s) ->
                WipeErr("InvalidPattern")
          [] s.pass_failed \in 1..PatternCount(request.standard) -> WipeErr(s.pass_error)
          [] request.verify_erasure /\ ~v.ok -> v
          [] OTHER ->
                WipeOk(PatternCount(request.standard),
                       IF request.verify_erasure THEN v.result ELSE NoResult,
                       ActualHasHpa(request, s))

(***************************************************************************)
(* SafeWipeClient (safewipe-sdk/src/lib.rs): the operations map and the    *)
(* start_wipe calls in flight.  An operation id is its index in            *)
(* `operations`; a call is [op, pc, outcome, response]:                    *)
(*   op:       the operation the call created, 0 when it created none      *)
(*   pc:       "execute" (before the engine runs), "running" (inside       *)
(*             sanitize_device), "update" (the engine returned Ok),        *)
(*             "failed" (execute_wipe_operation returned Err), "returned"  *)
(*   response: the ApiResponse, "pending" until the call returns           *)
(***************************************************************************)
MaxJobs == 2

Status(tag, message) == [tag |-> tag, message |-> message]
Starting == Status("Starting", "None")
Completed == Status("Completed", "None")
Aborted == Status("Aborted", "None")
Failed(e) == Status("Failed", e)

WipeOperation(device_path, method) ==
    [device_path |-> device_path, method |-> method, status |-> Starting, result |-> NoResult]

Call(op, pc, outcome, response) ==
    [op |-> op, pc |-> pc, outcome |-> outcome, response |-> response]

Jobs == Len(tasks) + Len(spawned)

\* start_wipe up to the insertion of the operation
StartWipe ==
    /\ last.op = "none"
    /\ Jobs < MaxJobs
    /\ \E found \in BOOLEAN, p \in Paths, method \in SanitizationMethod,
          allow_system_drives \in BOOLEAN :
          IF ~found
          THEN /\ tasks' = Append(tasks, Call(0, "returned", NoResult, "Device not found"))
               /\ UNCHANGED operations
          ELSE IF is_system_drive(p) /\ ~allow_system_drives
          THEN /\ tasks' = Append(tasks, Call(0, "returned", NoResult, "Cannot wipe system drive"))
               /\ UNCHANGED operations
          ELSE /\ operations' = Append(operations, WipeOperation(p, method))
               /\ tasks' = Append(tasks, Call(Len(operations) + 1, "execute", NoResult, "pending"))
    /\ UNCHANGED <<last, cancelled, observed, active_operations, spawned, certVars, passVars, issuerVars>>

\* what the engine can return for an operation; the engine is always
\* SanitizationEngine::new()
WipeOutcomes(op) ==
    {sanitize_device(create_device_from_disk(op.device_path, size), op.method,
                     DefaultAllowRealDevices, e) : size \in 0..MaxSize, e \in Env}

\* execute_wipe_operation up to the call of the engine: the second scan may
\* no longer list the device
ExecuteWipeOperation ==
    \E t \in 1..Len(tasks) :
        /\ tasks[t].pc = "execute"
        /\ \E listed \in BOOLEAN :
              tasks' = IF listed
                       THEN [tasks EXCEPT ![t].pc = "running"]
                       ELSE [tasks EXCEPT
                               ![t].pc = "failed",
                               ![t].outcome = Failure("Device not found for wipe operation",
                                                      <<>>, FALSE, <<>>)]
        /\ UNCHANGED <<last, operations, cancelled, observed, active_operations, spawned,
                       certVars, passVars, issuerVars>>

\* execute_wipe_operation: sanitize_device returns
SanitizeDeviceReturns ==
    \E t \in 1..Len(tasks) :
        /\ tasks[t].pc = "running"
        /\ \E o \in WipeOutcomes(operations[tasks[t].op]) :
              tasks' = [tasks EXCEPT ![t].pc = IF o.ok THEN "update" ELSE "failed",
                                     ![t].outcome = o]
        /\ UNCHANGED <<last, operations, cancelled, observed, active_operations, spawned,
                       certVars, passVars, issuerVars>>

\* execute_wipe_operation after Ok(result): the operation is updated
UpdateOperation ==
    \E t \in 1..Len(tasks) :
        /\ tasks[t].pc = "update"
        /\ operations' = [operations EXCEPT ![tasks[t].op].status = Completed,
                                            ![tasks[t].op].result = tasks[t].outcome]
        /\ tasks' = [tasks EXCEPT ![t].pc = "returned", ![t].response = "success"]
        /\ UNCHANGED <<last, cancelled, observed, active_operations, spawned, certVars, passVars, issuerVars>>

\* start_wipe after Err(e) of execute_wipe_operation
StartWipeFailed ==
    \E t \in 1..Len(tasks) :
        /\ tasks[t].pc = "failed"
        /\ operations' = [operations EXCEPT
                             ![tasks[t].op].status = Failed(tasks[t].outcome.error_message)]
        /\ tasks' = [tasks EXCEPT ![t].pc = "returned", ![t].response = "Wipe operation failed"]
        /\ UNCHANGED <<last, cancelled, observed, active_operations, spawned, certVars, passVars, issuerVars>>

\* cancel_operation with any operation id
CancelOperation ==
    \E id \in 1..MaxJobs :
        /\ IF id \in DOMAIN operations /\ operations[id].status.tag \in {"Starting", "InProgress"}
           THEN /\ operations' = [operations EXCEPT ![id].status = Aborted]
                /\ cancelled' = cancelled \cup {id}
           ELSE UNCHANGED <<operations, cancelled>>
        /\ UNCHANGED <<last, tasks, observed, active_operations, spawned, certVars, passVars, issuerVars>>

Terminal(status) == status.tag \in {"Completed", "Failed", "Aborted"}

\* get_operation_status: returns a copy of the operation; `observed` keeps
\* the copies that showed a terminal status
GetOperationStatus ==
    \E id \in DOMAIN operations :
        /\ observed' = IF Terminal(operations[id].status)
                       THEN [j \in DOMAIN observed \cup {id} |->
                               IF j = id THEN operations[id] ELSE observed[j]]
                       ELSE observed
        /\ UNCHANGED <<last, operations, tasks, cancelled, active_operations, spawned,
                       certVars, passVars, issuerVars>>

(***************************************************************************)
(* SafeWipeSDK (safewipe-engine/src/sdk.rs): background tasks and the map  *)
(* of reports.  An operation id is the task's index in `spawned`.          *)
(***************************************************************************)
\* the plans handed to execute_sanitization_plan: one scanned device each
JobPlans == {create_sanitization_plan(<<d>>, m) : d \in ScannedDevices, m \in SanitizationMethod}

SanitizationReport(run) ==
    [plan |-> run.plan, results |-> run.results, overall_success |-> run.overall_success]

\* execute_sanitization_plan: the task is spawned and the id returned
ExecuteSanitizationPlan ==
    /\ last.op = "none"
    /\ Jobs < MaxJobs
    /\ \E plan \in JobPlans :
          spawned' = Append(spawned, [pc |-> "running", run |-> StartRun(plan)])
    /\ UNCHANGED <<last, operations, tasks, cancelled, observed, active_operations, certVars, passVars, issuerVars>>

\* the device the loop of a run handles next
CurrentDevice(run) == run.plan.devices[run.next]

\* the spawned task: execute_plan with SafeWipeController::new() hands the
\* next device to the engine
SpawnedSanitize ==
    \E i \in 1..Len(spawned) :
        /\ spawned[i].pc = "running"
        /\ ~RunFinished(spawned[i].run)
        /\ ~CurrentDevice(spawned[i].run).is_system_drive
        /\ spawned' = [spawned EXCEPT ![i].pc = "sanitizing"]
        /\ UNCHANGED <<last, operations, tasks, cancelled, observed, active_operations,
                       certVars, passVars, issuerVars>>

\* the spawned task: the iteration ends (the engine returned, or the device
\* was skipped as a system drive)
SpawnedStep ==
    \E i \in 1..Len(spawned) :
        /\ \/ spawned[i].pc = "sanitizing"
           \/ /\ spawned[i].pc = "running"
              /\ ~RunFinished(spawned[i].run)
              /\ CurrentDevice(spawned[i].run).is_system_drive
        /\ \E run \in {execute_plan_step(spawned[i].run, DefaultAllowRealDevices, e) : e \in Env} :
              spawned' = [spawned EXCEPT ![i].run = run, ![i].pc = "running"]
        /\ UNCHANGED <<last, operations, tasks, cancelled, observed, active_operations,
                       certVars, passVars, issuerVars>>

\* the spawned task ends as in the Err arm: the report is not inserted
SpawnedDiscard ==
    \E i \in 1..Len(spawned) :
        /\ spawned[i].pc = "running"
        /\ RunFinished(spawned[i].run)
        /\ spawned' = [spawned EXCEPT ![i].pc = "done"]
        /\ UNCHANGED <<last, operations, tasks, cancelled, observed, active_operations,
                       certVars, passVars, issuerVars>>

\* the spawned task: Ok(report) is inserted into active_operations
SpawnedInsert ==
    \E i \in 1..Len(spawned) :
        /\ spawned[i].pc = "running"
        /\ RunFinished(spawned[i].run)
        /\ active_operations' =
              [id \in DOMAIN active_operations \cup {i} |->
                  IF id = i THEN SanitizationReport(spawned[i].run)
                  ELSE active_operations[id]]
        /\ spawned' = [spawned EXCEPT ![i].pc = "done"]
        /\ UNCHANGED <<last, operations, tasks, cancelled, observed, certVars, passVars, issuerVars>>

\* SafeWipeSDK::cancel_operation with any operation id
SdkCancelOperation ==
    \E id \in 1..MaxJobs :
        /\ IF id \in DOMAIN active_operations
           THEN active_operations' =
                   [j \in DOMAIN active_operations \ {id} |-> active_operations[j]]
           ELSE UNCHANGED active_operations
        /\ UNCHANGED <<last, operations, tasks, cancelled, observed, spawned, certVars, passVars, issuerVars>>

\* SecureSanitizer::execute_wipe, called by the HDD tool (a process of its own)
SanitizerExecuteWipe ==
    /\ last.op = "none"
    /\ Jobs = 0
    /\ \E request \in WipeRequest, s \in SanitizerEnv :
          last' = [op |-> "execute_wipe", request |-> request,
                   outcome |-> execute_wipe(request, s)]
    /\ UNCHANGED <<jobVars, certVars, passVars, issuerVars>>

NextJob ==
    \/ StartWipe
    \/ ExecuteWipeOperation
    \/ SanitizeDeviceReturns
    \/ UpdateOperation
    \/ StartWipeFailed
    \/ CancelOperation
    \/ GetOperationStatus
    \/ ExecuteSanitizationPlan
    \/ SpawnedSanitize
    \/ SpawnedStep
    \/ SpawnedInsert
    \/ SdkCancelOperation
    \/ SanitizerExecuteWipe
    \/ Return

SpecJob == Init /\ [][NextJob]_vars

(***************************************************************************)
(* Properties of the job level                                             *)
(***************************************************************************)
\* C4: an operation that get_operation_status has shown in a terminal state
\* (Completed, Failed, Aborted) keeps that status and result ever after.
C4_TerminalOperationFrozen ==
    \A id \in DOMAIN observed : operations[id] = observed[id]

\* C5: an operation whose cancel_operation succeeded is Aborted and stays
\* Aborted; in particular it never ends Completed.
C5_CancelledStaysAborted ==
    \A id \in cancelled : operations[id].status = Aborted

\* a WipeResult that records a success and no failure
SuccessfulResult(r) ==
    /\ r.status = "Completed"
    /\ r.error_message = "None"

\* C10: every job carries one outcome.  An operation that is Completed has a
\* result, and that result is Completed with no error; a Failed operation
\* carries its error and no result; a report that says overall_success holds
\* only Completed results; execute_wipe returns either an error code or a
\* result with success and no error message.
C10_SingleOutcome ==
    /\ \A id \in DOMAIN operations :
          LET op == operations[id]
          IN  /\ op.status.tag = "Completed"
                    => op.result # NoResult /\ SuccessfulResult(op.result)
              /\ op.status.tag = "Failed"
                    => op.result = NoResult /\ op.status.message # "None"
              /\ op.status.tag \in {"Starting", "Aborted"} => op.result = NoResult
    /\ \A id \in DOMAIN active_operations :
          LET report == active_operations[id]
          IN  \A i \in 1..Len(report.results) :
                 /\ report.overall_success => SuccessfulResult(report.results[i])
                 /\ report.results[i].status = "Completed"
                       <=> report.results[i].error_message = "None"
    /\ last.op = "execute_wipe"
          => IF last.outcome.ok
             THEN /\ last.outcome.code = "None"
                  /\ last.outcome.result.success
                  /\ last.outcome.result.error_message = "None"
             ELSE /\ last.outcome.code # "None"
                  /\ last.outcome.result = NoResult

\* C10 witness: one operation ended Completed with its result, another Failed
C10_Witness ==
    /\ \E id \in DOMAIN operations :
          /\ operations[id].status = Completed
          /\ operations[id].result # NoResult
    /\ \E id \in DOMAIN operations : operations[id].status.tag = "Failed"

\* the errors of a refused start: a system drive, no purge method
RefusalErrors ==
    {"Cannot sanitize system drive for safety reasons",
     "does not support any secure purge methods"}

\* C12: after start_wipe was refused for a system drive, or failed because the
\* device has no purge method, the operations map holds the job as Failed
\* with that error.
C12_RefusedStartShowsFailed ==
    \A t \in DOMAIN tasks :
        /\ tasks[t].response = "Cannot wipe system drive"
              => /\ tasks[t].op \in DOMAIN operations
                 /\ operations[tasks[t].op].status.tag = "Failed"
        /\ (tasks[t].pc = "returned" /\ tasks[t].outcome # NoResult
                /\ tasks[t].outcome.error_message \in RefusalErrors)
              => operations[tasks[t].op].status = Failed(tasks[t].outcome.error_message)

\* the start_wipe calls whose engine is inside a Clear of the device at path p
ClientPasses(p) ==
    {t \in DOMAIN tasks :
        /\ tasks[t].pc = "running"
        /\ operations[tasks[t].op].device_path = p
        /\ operations[tasks[t].op].method = "Clear"}

\* the spawned tasks whose engine is inside a Clear of the device at path p
SdkPasses(p) ==
    {i \in DOMAIN spawned :
        /\ spawned[i].pc = "sanitizing"
        /\ CurrentDevice(spawned[i].run).path = p
        /\ spawned[i].run.plan.method = "Clear"}

\* C13: at no time do two jobs run overwrite passes on the same device,
\* whatever start calls were made.
C13_OnePassPerDevice ==
    \A p \in Paths :
        /\ Cardinality(ClientPasses(p)) <= 1
        /\ Cardinality(SdkPasses(p)) <= 1

\* C20: a start call does not wait for its job: while the engine works on the
\* job, or has finished it, the call that started it has already returned.
C20_StartReturnsOnceSpawned ==
    \A t \in DOMAIN tasks :
        tasks[t].pc \in {"running", "update", "failed"} => tasks[t].response # "pending"

(***************************************************************************)
(* Overwrite passes, one write at a time, and the progress channel.        *)
(*                                                                         *)
(* The pass implementations:                                               *)
(*   overwrite_with_pattern, overwrite_with_random (wipe.rs), one pass     *)
(*   execute_pattern_pass (src/hardware/sanitizer.rs)                      *)
(*   sanitize_device_with_size (src/sanitization.rs), one pattern: it      *)
(*     runs sanitize_device_parallel or sanitize_device_sequential         *)
(* Sizes are counted in write buffers.  pass_exec holds                    *)
(*   pc:        the next step: open, seek, parallel, write, flush, sync,   *)
(*              demo (the simulated pass), done                            *)
(*   wrote, flushed, synced: a write happened; a flush / a sync_all        *)
(*              completed after the latest write                           *)
(*   attempts:  how often the latest write was issued                      *)
(*   failed:    the step at which the platform reported an error           *)
(*   result:    "Ok", "Err" or "none" while the pass runs                  *)
(* The engine's progress callback sends each event on the broadcast        *)
(* channel; `step` numbers the passes and is not part of the event the     *)
(* code sends.                                                             *)
(***************************************************************************)
MaxChunks == 2
MaxPasses == 2
ProgressBufferSize == 2

\* CHUNK_SIZE / OPTIMAL_BUFFER_SIZE
ChunkBuffers == 4
MAX_THREADS == 4
ProgressSteps == 100
MAX_RETRY_ATTEMPTS == 3
MaxTryRecv == 10

\* the inputs of a pass
PassInputs ==
    [impl: {"overwrite_with_pattern", "overwrite_with_random"},
     allow_real_devices: BOOLEAN, path: Paths, size: 0..MaxChunks, thread_count: {1}]
    \cup [impl: {"execute_pattern_pass"},
          allow_real_devices: {TRUE}, path: {"/dev/sda"}, size: 0..MaxChunks,
          thread_count: {1}]
    \cup [impl: {"sanitize_device_with_size"},
          allow_real_devices: {TRUE}, path: {"/dev/sda"},
          size: 0..(ChunkBuffers + MaxChunks), thread_count: {1, MAX_THREADS}]

\* the pass is simulated: no device is opened
Simulated(inp) ==
    CASE inp.impl = "overwrite_with_pattern" -> ~inp.allow_real_devices
      [] inp.impl = "overwrite_with_random" ->
            ~inp.allow_real_devices /\ (ContainsColon(inp.path) \/ StartsWithDev(inp.path))
      [] OTHER -> FALSE

StartPass(inp) ==
    [impl |-> inp.impl, allow_real_devices |-> inp.allow_real_devices, path |-> inp.path,
     size |-> inp.size, thread_count |-> inp.thread_count,
     pc |-> IF Simulated(inp) THEN "demo" ELSE "open",
     bytes_written |-> 0, wrote |-> FALSE, flushed |-> FALSE, synced |-> FALSE,
     attempts |-> 0, failed |-> "none", failed_final |-> FALSE, result |-> "none",
     simulated |-> FALSE, counter |-> 0, chunks_done |-> 0,
     next_progress_update |-> inp.size \div ProgressSteps]

\* the pass ends with Err(e)
PassErr(p, step) == [p EXCEPT !.pc = "done", !.result = "Err", !.failed = step]

\* the pass ends with Ok
PassOk(p) == [p EXCEPT !.pc = "done", !.result = "Ok"]

\* the head of the write loop: while bytes_written < size
WriteLoop(p) == [p EXCEPT !.pc = IF p.bytes_written < p.size THEN "write" ELSE "flush"]

\* sanitize_device_with_size takes the parallel path
UsesParallel(p) ==
    p.impl = "sanitize_device_with_size" /\ p.size > ChunkBuffers /\ p.thread_count > 1

chunks_count(p) == (p.size + ChunkBuffers - 1) \div ChunkBuffers
actual_chunk_size(p) == p.size \div chunks_count(p)

Event(bytes_processed, total_bytes) ==
    [step |-> passes_run, current_pass |-> 1,
     bytes_processed |-> bytes_processed, total_bytes |-> total_bytes]

\* the progress callback is invoked; the engine's callback sends on the channel
Emit(p, events) ==
    /\ progress' = progress \o events
    /\ stream' = IF p.impl \in {"overwrite_with_pattern", "overwrite_with_random"}
                 THEN stream \o events
                 ELSE stream

\* a pass begins once the previous one has returned
BeginPass ==
    /\ pass_exec.pc \in {"idle", "done"}
    /\ passes_run < MaxPasses
    /\ \E inp \in PassInputs : pass_exec' = StartPass(inp)
    /\ progress' = <<>>
    /\ passes_run' = passes_run + 1
    /\ UNCHANGED <<engineVars, jobVars, certVars, issuerVars, stream, next, received>>

\* the simulated pass: overwrite_with_pattern reports the whole size,
\* overwrite_with_random reports nothing
PassSimulate ==
    /\ pass_exec.pc = "demo"
    /\ pass_exec' = PassOk(pass_exec)
    /\ Emit(pass_exec, IF pass_exec.impl = "overwrite_with_pattern"
                       THEN <<Event(pass_exec.size, pass_exec.size)>>
                       ELSE <<>>)
    /\ UNCHANGED <<engineVars, jobVars, certVars, issuerVars, passes_run, next, received>>

\* the device is opened; overwrite_with_random goes on without the device
PassOpen ==
    /\ pass_exec.pc = "open"
    /\ \E ok \in BOOLEAN :
          pass_exec' =
             IF ok
             THEN IF pass_exec.impl \in {"overwrite_with_pattern", "overwrite_with_random"}
                  THEN WriteLoop(pass_exec)
                  ELSE [pass_exec EXCEPT !.pc = "seek"]
             ELSE IF pass_exec.impl = "overwrite_with_random"
                  THEN [PassOk(pass_exec) EXCEPT !.failed = "open"]
                  ELSE PassErr(pass_exec, "open")
    /\ UNCHANGED <<engineVars, jobVars, certVars, issuerVars, progress, passes_run, stream, next, received>>

\* seek to the start of the range
PassSeek ==
    /\ pass_exec.pc = "seek"
    /\ \E ok \in BOOLEAN :
          pass_exec' =
             IF ~ok THEN PassErr(pass_exec, "seek")
             ELSE IF UsesParallel(pass_exec) /\ ~pass_exec.simulated
             THEN [pass_exec EXCEPT !.pc = "parallel"]
             ELSE WriteLoop(pass_exec)
    /\ UNCHANGED <<engineVars, jobVars, certVars, issuerVars, progress, passes_run, stream, next, received>>

\* sanitize_device_parallel: the monitor takes one completion message and
\* reports the counter, which the workers have advanced at least to the
\* chunks completed; after the last message the sequential pass follows
ParallelChunkDone ==
    /\ pass_exec.pc = "parallel"
    /\ LET done == pass_exec.chunks_done + 1
           total == chunks_count(pass_exec) * actual_chunk_size(pass_exec)
           lowest == IF done = chunks_count(pass_exec) THEN total
                     ELSE IF pass_exec.counter > done * actual_chunk_size(pass_exec)
                          THEN pass_exec.counter
                          ELSE done * actual_chunk_size(pass_exec)
       IN  \E v \in lowest..total :
              /\ pass_exec' = [pass_exec EXCEPT
                                 !.chunks_done = done,
                                 !.counter = v,
                                 !.simulated = done = chunks_count(pass_exec),
                                 !.pc = IF done = chunks_count(pass_exec)
                                        THEN "seek" ELSE "parallel"]
              /\ Emit(pass_exec, <<Event(v, pass_exec.size)>>)
    /\ UNCHANGED <<engineVars, jobVars, certVars, issuerVars, passes_run, next, received>>

\* the events a successful write is followed by
WriteEvents(p, bytes_written, elapsed) ==
    CASE p.impl = "overwrite_with_pattern" -> <<Event(bytes_written, p.size)>>
      [] p.impl = "overwrite_with_random" -> <<>>
      [] p.impl = "execute_pattern_pass" ->
            IF elapsed THEN <<Event(bytes_written, p.size)>> ELSE <<>>
      [] OTHER ->
            IF bytes_written >= p.next_progress_update \/ bytes_written = p.size
            THEN <<Event(bytes_written, p.size)>> ELSE <<>>

\* one write_all of the loop; the write is issued once
PassWrite ==
    /\ pass_exec.pc = "write"
    /\ \E ok \in BOOLEAN, elapsed \in BOOLEAN :
          LET written == pass_exec.bytes_written + 1
              events == WriteEvents(pass_exec, written, elapsed)
          IN  IF ok
              THEN /\ pass_exec' =
                         WriteLoop([pass_exec EXCEPT
                            !.bytes_written = written,
                            !.wrote = TRUE, !.flushed = FALSE, !.synced = FALSE,
                            !.attempts = 1,
                            !.next_progress_update =
                                IF pass_exec.impl = "sanitize_device_with_size"
                                      /\ events # <<>>
                                THEN @ + (pass_exec.size \div ProgressSteps) ELSE @])
                   /\ Emit(pass_exec, events)
              ELSE /\ pass_exec' = [PassErr(pass_exec, "write") EXCEPT
                                      !.attempts = 1,
                                      !.failed_final = written = pass_exec.size]
                   /\ UNCHANGED <<progress, stream>>
    /\ UNCHANGED <<engineVars, jobVars, certVars, issuerVars, passes_run, next, received>>

\* flush after the loop; execute_pattern_pass returns after it
PassFlush ==
    /\ pass_exec.pc = "flush"
    /\ \E ok \in BOOLEAN :
          pass_exec' =
             IF ~ok THEN PassErr(pass_exec, "flush")
             ELSE IF pass_exec.impl = "execute_pattern_pass"
             THEN PassOk([pass_exec EXCEPT !.flushed = TRUE])
             ELSE [pass_exec EXCEPT !.flushed = TRUE, !.pc = "sync"]
    /\ UNCHANGED <<engineVars, jobVars, certVars, issuerVars, progress, passes_run, stream, next, received>>

\* sync_all after the flush
PassSync ==
    /\ pass_exec.pc = "sync"
    /\ \E ok \in BOOLEAN :
          pass_exec' = IF ok THEN PassOk([pass_exec EXCEPT !.synced = TRUE])
                       ELSE PassErr(pass_exec, "sync")
    /\ UNCHANGED <<engineVars, jobVars, certVars, issuerVars, progress, passes_run, stream, next, received>>

\* the oldest position the broadcast channel still holds
Oldest == IF Len(stream) > ProgressBufferSize THEN Len(stream) - ProgressBufferSize ELSE 0

\* the loop of get_progress_updates: up to n try_recv calls from position
\* at; Lagged moves to the oldest retained event, Empty ends the loop
RECURSIVE try_recv_loop(_, _, _)
try_recv_loop(n, at, got) ==
    IF n = 0 THEN [next |-> at, updates |-> got]
    ELSE IF at < Oldest THEN try_recv_loop(n - 1, Oldest, got)
    ELSE IF at = Len(stream) THEN [next |-> at, updates |-> got]
    ELSE try_recv_loop(n - 1, at + 1, got \cup {at + 1})

\* get_progress_updates of the GUI, the subscriber of the channel
GetProgressUpdates ==
    /\ next < Len(stream)
    /\ LET r == try_recv_loop(MaxTryRecv, next, {})
       IN  /\ next' = r.next
           /\ received' = received \cup r.updates
    /\ UNCHANGED <<engineVars, jobVars, certVars, issuerVars, pass_exec, progress, passes_run, stream>>

NextPass ==
    \/ BeginPass
    \/ PassSimulate
    \/ PassOpen
    \/ PassSeek
    \/ ParallelChunkDone
    \/ PassWrite
    \/ PassFlush
    \/ PassSync
    \/ GetProgressUpdates

SpecPass == Init /\ [][NextPass]_vars

(***************************************************************************)
(* Properties of the passes and of the progress channel                    *)
(***************************************************************************)
\* C14: a pass that wrote returns success only after a flush and a device
\* sync that both completed after its last write.
C14_SuccessAfterFlushAndSync ==
    (pass_exec.pc = "done" /\ pass_exec.result = "Ok" /\ pass_exec.wrote)
      => pass_exec.flushed /\ pass_exec.synced

\* C15: a pass that could not open, seek or write the device never returns
\* success.
C15_FailureIsReturned ==
    (pass_exec.pc = "done" /\ pass_exec.result = "Ok") => pass_exec.failed = "none"

\* C16: a pass fails on a write that is not the final chunk only after the
\* write was issued once and retried MAX_RETRY_ATTEMPTS times.
C16_WriteRetriedBeforeFailure ==
    (pass_exec.pc = "done" /\ pass_exec.result = "Err" /\ pass_exec.failed = "write"
        /\ ~pass_exec.failed_final)
      => pass_exec.attempts = 1 + MAX_RETRY_ATTEMPTS

\* C17: between two consecutive progress events of one step and pass, the
\* bytes processed never decrease.
C17_BytesDoneNonDecreasing ==
    \A i \in 1..(Len(progress) - 1) :
        progress[i].current_pass = progress[i + 1].current_pass
          => progress[i].bytes_processed <= progress[i + 1].bytes_processed

\* C18: when a pass completes, the last progress event it emitted reports
\* all bytes of the pass.
C18_LastEventIsComplete ==
    (pass_exec.pc = "done" /\ pass_exec.result = "Ok" /\ progress # <<>>)
      => progress[Len(progress)].bytes_processed = progress[Len(progress)].total_bytes

MaxStarts == 2
MaxCerts == 2

KeyIds == 1..(MaxStarts + 1)

PublicKeyPem(k) == "PUBLIC KEY " \o ToString(k)

\* CertificateAuthority::new with the k-th generated keypair
CertificateAuthority_new(k) ==
    [name |-> "SecureWipe Certificate Authority",
     organization |-> "Data Security Solutions Inc.",
     private_key_pem |-> k,
     public_key_pem |-> PublicKeyPem(k),
     certificate_counter |-> 0]

\* load_from_file: Ok(the stored issuer) or Err
load_from_file(file) ==
    IF file.file = "ok" THEN [ok |-> TRUE, ca |-> file.content]
    ELSE [ok |-> FALSE, ca |-> NoCA]

BoolString(b) == IF b THEN "true" ELSE "false"

\* Vec<String>::join(sep)
RECURSIVE Join(_, _)
Join(strings, sep) ==
    IF strings = <<>> THEN ""
    ELSE IF Len(strings) = 1 THEN strings[1]
    ELSE strings[1] \o sep \o Join(Tail(strings), sep)

get_certificate_content_for_signing(c) ==
    c.certificate_id
    \o "|" \o c.wipe_request_id
    \o "|" \o ToString(c.issued_at)
    \o "|" \o c.issuer
    \o "|" \o c.organization
    \o "|" \o c.drive_info.serial_number
    \o "|" \o c.drive_info.model
    \o "|" \o c.wipe_details.standard_used
    \o "|" \o ToString(c.wipe_details.passes_completed)
    \o "|" \o ToString(c.wipe_details.sectors_wiped)
    \o "|" \o ToString(c.wipe_details.start_time)
    \o "|" \o ToString(c.wipe_details.completion_time)
    \o "|" \o BoolString(c.verification_details.verification_performed)
    \o "|" \o ToString(c.verification_details.sectors_verified)
    \o "|" \o BoolString(c.verification_details.pattern_verification_passed)
    \o "|" \o ToString(c.verification_details.failed_sectors)
    \o "|" \o Join(c.compliance_standards, ",")
    \o "|" \o c.public_key

calculate_hash(data) == "sha256(" \o data \o ")"

hex_encode(hash) == "hex:" \o hash

\* sign_data and the base64 encoding of the signature
sign_data(private_key_pem, data) ==
    [encoding |-> "base64", signer |-> private_key_pem, data |-> data]

NoSignature == [encoding |-> "base64", signer |-> 0, data |-> ""]

format_security_features(has_security) ==
    IF has_security THEN <<"ATA Security">> ELSE <<"Basic">>

get_pattern_descriptions(standard) ==
    CASE standard = "NIST80088Clear" -> <<"Single pass zeros">>
      [] standard = "NIST80088Purge" -> <<"Pass 1: Zeros", "Pass 2: Ones", "Pass 3: Random">>
      [] OTHER -> <<"Pass 1: Zeros", "Pass 2: Ones", "Pass 3: Random",
                    "Pass 4: Verification zeros">>

\* the certificate before it is hashed and signed, for a request with the
\* given standard; n numbers the request, the fresh certificate id and the clock
UnsignedCertificate(authority, standard, result, n) ==
    LET validation == result.validation_result
        verified == validation # NoResult
    IN  [certificate_id |-> "cert-" \o ToString(n),
         wipe_request_id |-> "request-" \o ToString(n),
         issued_at |-> n + 2,
         issuer |-> authority.name,
         organization |-> authority.organization,
         drive_info |->
            [model |-> "model", serial_number |-> "serial", firmware_version |-> "fw1",
             total_capacity_gb |-> 1, native_capacity_gb |-> 1,
             had_hpa |-> result.drive_geometry.has_hpa, had_dco |-> FALSE,
             security_features |-> format_security_features(TRUE)],
         wipe_details |->
            [standard_used |-> standard,
             passes_completed |-> result.passes_completed,
             sectors_wiped |-> result.passes_completed,
             start_time |-> n, completion_time |-> n + 1, duration_minutes |-> 0,
             patterns_used |-> get_pattern_descriptions(standard)],
         verification_details |->
            [verification_performed |-> verified,
             sectors_verified |-> IF verified THEN 1 ELSE 0,
             verification_sample_rate |-> IF verified THEN 1 ELSE 0,
             pattern_verification_passed |-> verified /\ validation.pattern_matches,
             failed_sectors |-> IF verified /\ ~validation.pattern_matches THEN 1 ELSE 0,
             verification_time |-> IF verified THEN n + 1 ELSE 0],
         compliance_standards |-> <<"NIST SP 800-88 Rev. 1", "DoD 5220.22-M">>,
         signature |-> NoSignature,
         public_key |-> authority.public_key_pem,
         certificate_hash |-> ""]

\* an issuer that signs the content itself instead of its hash
SignedOverContent(authority, standard, result, n) ==
    LET certificate == UnsignedCertificate(authority, standard, result, n)
        content == get_certificate_content_for_signing(certificate)
    IN  [certificate EXCEPT
            !.certificate_hash = hex_encode(calculate_hash(content)),
            !.signature = sign_data(authority.private_key_pem, content)]

\* generate_certificate after the counter was incremented: hash, then sign
generate_certificate(authority, standard, result, n) ==
    LET certificate == UnsignedCertificate(authority, standard, result, n)
        content_hash == calculate_hash(get_certificate_content_for_signing(certificate))
    IN  [certificate EXCEPT
            !.certificate_hash = hex_encode(content_hash),
            !.signature = sign_data(authority.private_key_pem, content_hash)]

\* the key a public key PEM decodes to, 0 when it does not decode
DecodePublicKey(pem) ==
    IF \E k \in KeyIds : PublicKeyPem(k) = pem
    THEN CHOOSE k \in KeyIds : PublicKeyPem(k) = pem
    ELSE 0

\* Ok(true) as "true", Ok(false) as "false", Err as "Err"
verify_certificate(c) ==
    LET content_hash == calculate_hash(get_certificate_content_for_signing(c))
    IN  IF hex_encode(content_hash) # c.certificate_hash THEN "false"
        ELSE IF c.signature.encoding # "base64" THEN "Err"
        ELSE IF DecodePublicKey(c.public_key) = 0 THEN "Err"
        ELSE IF c.signature.signer = DecodePublicKey(c.public_key)
                  /\ c.signature.data = content_hash
        THEN "true"
        ELSE "false"

(***************************************************************************)
(* WipeEngine (src/core/engine.rs) and the life of the issuer: process     *)
(* starts and exits, wipes that issue a certificate, and what the          *)
(* environment does to certificates/ca.json and to an issued certificate.  *)
(* A behaviour ends with the examination of an altered certificate: the    *)
(* other actions require the certificate to be as issued.                  *)
(***************************************************************************)
\* what fs::write leaves behind when it fails: the old file or a torn one
FailedWrite(file) == {file, Corrupt}

\* WipeEngine::new at process start: a new issuer, saved to ca.json
WipeEngine_new ==
    /\ cert = cert_orig
    /\ ca = NoCA
    /\ starts < MaxStarts
    /\ starts' = starts + 1
    /\ \E keygen_ok \in BOOLEAN, write_ok \in BOOLEAN :
          IF ~keygen_ok
          THEN UNCHANGED <<ca, ca_file, keys_made, intact, identities, boot>>
          ELSE LET authority == CertificateAuthority_new(keys_made + 1)
               IN  /\ keys_made' = keys_made + 1
                   /\ IF write_ok
                      THEN /\ ca' = authority
                           /\ ca_file' = Saved(authority)
                           /\ identities' = identities \cup {authority.private_key_pem}
                           /\ boot' = [first |-> identities = {}, file |-> ca_file]
                           /\ UNCHANGED intact
                      ELSE /\ ca_file' \in FailedWrite(ca_file)
                           /\ intact' = FALSE
                           /\ UNCHANGED <<ca, identities, boot>>
    /\ UNCHANGED <<engineVars, jobVars, passVars, issuerVars, issued, cert, cert_orig>>

\* every outcome of SecureSanitizer::execute_wipe, with the request's standard
SecureWipeRuns ==
    {[standard |-> request.standard, outcome |-> execute_wipe(request, s)] :
        request \in WipeRequest, s \in SanitizerEnv}

\* WipeEngine::execute_secure_wipe: the wipe, then certificate, reports, save
ExecuteSecureWipe ==
    /\ cert = cert_orig
    /\ ca # NoCA
    /\ Len(issued) < MaxCerts
    /\ \E run \in SecureWipeRuns, want_certificate \in BOOLEAN,
          reports_ok \in BOOLEAN, write_ok \in BOOLEAN :
          IF ~(run.outcome.ok /\ want_certificate /\ run.outcome.result.success)
          THEN UNCHANGED <<ca, ca_file, issued, cert, cert_orig, intact, identities>>
          ELSE LET authority == [ca EXCEPT !.certificate_counter = @ + 1]
                   certificate == generate_certificate(authority, run.standard,
                                                       run.outcome.result, Len(issued) + 1)
               IN  /\ ca' = authority
                   /\ issued' = Append(issued, [key |-> authority.private_key_pem,
                                                counter |-> authority.certificate_counter])
                   /\ cert' = certificate
                   /\ cert_orig' = certificate
                   /\ IF ~reports_ok
                      THEN UNCHANGED <<ca_file, intact, identities>>
                      ELSE IF write_ok
                      THEN /\ ca_file' = Saved(authority)
                           /\ identities' = identities \cup {authority.private_key_pem}
                           /\ UNCHANGED intact
                      ELSE /\ ca_file' \in FailedWrite(ca_file)
                           /\ intact' = FALSE
                           /\ UNCHANGED identities
    /\ UNCHANGED <<engineVars, jobVars, passVars, issuerVars, keys_made, starts, boot>>

\* the process ends; the in-memory issuer is gone
Exit ==
    /\ cert = cert_orig
    /\ ca # NoCA
    /\ ca' = NoCA
    /\ UNCHANGED <<engineVars, jobVars, passVars, issuerVars, ca_file, keys_made, issued, cert, cert_orig, starts,
                   intact, identities, boot>>

\* between runs, ca.json is deleted or damaged
DamageFile ==
    /\ cert = cert_orig
    /\ ca = NoCA
    /\ ca_file.file = "ok"
    /\ ca_file' \in {Missing, Corrupt}
    /\ intact' = FALSE
    /\ UNCHANGED <<engineVars, jobVars, passVars, issuerVars, ca, keys_made, issued, cert, cert_orig, starts,
                   identities, boot>>

\* the fields of a certificate, and a value of each that differs from c's
Fields ==
    {"certificate_id", "wipe_request_id", "issued_at", "issuer", "organization",
     "model", "serial_number", "firmware_version", "total_capacity_gb",
     "native_capacity_gb", "had_hpa", "had_dco", "security_features",
     "standard_used", "passes_completed", "sectors_wiped", "start_time",
     "completion_time", "duration_minutes", "patterns_used",
     "verification_performed", "sectors_verified", "verification_sample_rate",
     "pattern_verification_passed", "failed_sectors", "verification_time",
     "compliance_standards", "signature", "public_key", "certificate_hash"}

Variants == {"value", "encoding"}

Altered(c, field, variant) ==
    CASE field = "certificate_id" -> [c EXCEPT !.certificate_id = @ \o "x"]
      [] field = "wipe_request_id" -> [c EXCEPT !.wipe_request_id = @ \o "x"]
      [] field = "issued_at" -> [c EXCEPT !.issued_at = @ + 1]
      [] field = "issuer" -> [c EXCEPT !.issuer = @ \o "x"]
      [] field = "organization" -> [c EXCEPT !.organization = @ \o "x"]
      [] field = "model" -> [c EXCEPT !.drive_info.model = @ \o "x"]
      [] field = "serial_number" -> [c EXCEPT !.drive_info.serial_number = @ \o "x"]
      [] field = "firmware_version" -> [c EXCEPT !.drive_info.firmware_version = @ \o "x"]
      [] field = "total_capacity_gb" -> [c EXCEPT !.drive_info.total_capacity_gb = @ + 1]
      [] field = "native_capacity_gb" -> [c EXCEPT !.drive_info.native_capacity_gb = @ + 1]
      [] field = "had_hpa" -> [c EXCEPT !.drive_info.had_hpa = ~@]
      [] field = "had_dco" -> [c EXCEPT !.drive_info.had_dco = ~@]
      [] field = "security_features" -> [c EXCEPT !.drive_info.security_features = <<"Basic">>]
      [] field = "standard_used" -> [c EXCEPT !.wipe_details.standard_used = @ \o "x"]
      [] field = "passes_completed" -> [c EXCEPT !.wipe_details.passes_completed = @ + 1]
      [] field = "sectors_wiped" -> [c EXCEPT !.wipe_details.sectors_wiped = @ + 1]
      [] field = "start_time" -> [c EXCEPT !.wipe_details.start_time = @ + 1]
      [] field = "completion_time" -> [c EXCEPT !.wipe_details.completion_time = @ + 1]
      [] field = "duration_minutes" -> [c EXCEPT !.wipe_details.duration_minutes = @ + 1]
      [] field = "patterns_used" -> [c EXCEPT !.wipe_details.patterns_used = <<>>]
      [] field = "verification_performed" ->
            [c EXCEPT !.verification_details.verification_performed = ~@]
      [] field = "sectors_verified" -> [c EXCEPT !.verification_details.sectors_verified = @ + 1]
      [] field = "verification_sample_rate" ->
            [c EXCEPT !.verification_details.verification_sample_rate = @ + 1]
      [] field = "pattern_verification_passed" ->
            [c EXCEPT !.verification_details.pattern_verification_passed = ~@]
      [] field = "failed_sectors" -> [c EXCEPT !.verification_details.failed_sectors = @ + 1]
      [] field = "verification_time" -> [c EXCEPT !.verification_details.verification_time = @ + 1]
      [] field = "compliance_standards" ->
            IF variant = "value"
            THEN [c EXCEPT !.compliance_standards = <<"NIST SP 800-88 Rev. 1">>]
            ELSE [c EXCEPT !.compliance_standards = <<Join(@, ",")>>]
      [] field = "signature" ->
            IF variant = "value"
            THEN [c EXCEPT !.signature.data = @ \o "x"]
            ELSE [c EXCEPT !.signature.encoding = "invalid"]
      [] field = "public_key" ->
            IF variant = "value"
            THEN [c EXCEPT !.public_key = PublicKeyPem((DecodePublicKey(@) % (MaxStarts + 1)) + 1)]
            ELSE [c EXCEPT !.public_key = @ \o "x"]
      [] OTHER -> [c EXCEPT !.certificate_hash = @ \o "x"]

\* somebody changes one field of the issued certificate
AlterCertificate ==
    /\ cert # NoCert
    /\ cert = cert_orig
    /\ \E field \in Fields, variant \in Variants : cert' = Altered(cert, field, variant)
    /\ UNCHANGED <<engineVars, jobVars, passVars, issuerVars, ca, ca_file, keys_made, issued, cert_orig, starts,
                   intact, identities, boot>>

NextCert ==
    \/ WipeEngine_new
    \/ ExecuteSecureWipe
    \/ Exit
    \/ DamageFile
    \/ AlterCertificate

SpecCert == Init /\ [][NextCert]_vars

(***************************************************************************)
(* Properties of the issuer                                                *)
(***************************************************************************)
\* C6: an issued certificate in which one field was changed does not
\* verify: verify_certificate returns false.
C6_AlteredCertificateRejected ==
    (cert # NoCert /\ cert # cert_orig) => verify_certificate(cert) = "false"

\* C7: a certificate as issued verifies: verify_certificate returns true.
C7_IssuedCertificateVerifies ==
    (cert # NoCert /\ cert = cert_orig) => verify_certificate(cert) = "true"

\* C7 witness: certificates were issued by two issuers, and the latest is unaltered
C7_Witness ==
    /\ Len(issued) = MaxCerts
    /\ issued[1].key # issued[MaxCerts].key
    /\ cert = cert_orig
    /\ cert.verification_details.verification_performed

\* C8: while ca.json is intact, the counters of the issued certificates are
\* strictly increasing in the order of issue, across restarts.
C8_CounterStrictlyIncreasing ==
    intact => \A i, j \in DOMAIN issued :
                    i < j => issued[i].counter < issued[j].counter

\* C9: an engine started after the first run took its identity from ca.json,
\* which it found readable, and ca.json has only ever held one identity.
C9_IdentityLoadedNeverReplaced ==
    /\ (ca # NoCA /\ ~boot.first)
          => /\ load_from_file(boot.file).ok
             /\ ca.private_key_pem = load_from_file(boot.file).ca.private_key_pem
    /\ Cardinality(identities) <= 1

(***************************************************************************)
(* Issuance on the WipeEngine instances of one process (core/engine.rs).   *)
(* Each instance owns the issuer it created behind its own mutex; all      *)
(* write certificates/ca.json.  A call in the certificate block is         *)
(* [engine, pc, counter]: pc is lock, generate, save or done; counter is   *)
(* the counter of the certificate it generated, 0 before.                  *)
(***************************************************************************)
MaxEngines == 2
MaxIssuances == 3

\* WipeEngine::new: a new issuer behind a new mutex, saved to ca.json
EngineNew ==
    /\ keys_made < MaxEngines
    /\ \E write_ok \in BOOLEAN :
          LET authority == CertificateAuthority_new(keys_made + 1)
          IN  /\ keys_made' = keys_made + 1
              /\ IF write_ok
                 THEN /\ engines' = Append(engines, [ca |-> authority, holder |-> 0])
                      /\ ca_file' = Saved(authority)
                      /\ persisted' = Append(persisted, authority.certificate_counter)
                 ELSE /\ ca_file' \in FailedWrite(ca_file)
                      /\ UNCHANGED <<engines, persisted>>
    /\ UNCHANGED <<engineVars, jobVars, passVars, issuing, ca, issued, cert, cert_orig, starts,
                   intact, identities, boot>>

\* execute_secure_wipe on an engine: the wipe succeeded and a certificate is wanted
IssueStart ==
    /\ Len(issuing) < MaxIssuances
    /\ \E e \in DOMAIN engines :
          issuing' = Append(issuing, [engine |-> e, pc |-> "lock", counter |-> 0])
    /\ UNCHANGED <<engineVars, jobVars, certVars, passVars, engines, persisted>>

\* self.certificate_authority.lock()
IssueLock ==
    \E t \in DOMAIN issuing :
        /\ issuing[t].pc = "lock"
        /\ engines[issuing[t].engine].holder = 0
        /\ engines' = [engines EXCEPT ![issuing[t].engine].holder = t]
        /\ issuing' = [issuing EXCEPT ![t].pc = "generate"]
        /\ UNCHANGED <<engineVars, jobVars, certVars, passVars, persisted>>

\* generate_certificate increments the counter; then the reports are written.
\* A failed report returns the error and drops the guard.
IssueGenerate ==
    \E t \in DOMAIN issuing, reports_ok \in BOOLEAN :
        LET e == issuing[t].engine
            counter == engines[e].ca.certificate_counter + 1
        IN  /\ issuing[t].pc = "generate"
            /\ engines' = [engines EXCEPT ![e].ca.certificate_counter = counter,
                                          ![e].holder = IF reports_ok THEN t ELSE 0]
            /\ issuing' = [issuing EXCEPT ![t].counter = counter,
                                          ![t].pc = IF reports_ok THEN "save" ELSE "done"]
            /\ UNCHANGED <<engineVars, jobVars, certVars, passVars, persisted>>

\* ca.save_to_file("certificates/ca.json"); the guard is dropped
IssueSave ==
    \E t \in DOMAIN issuing, write_ok \in BOOLEAN :
        LET e == issuing[t].engine
        IN  /\ issuing[t].pc = "save"
            /\ IF write_ok
               THEN /\ ca_file' = Saved(engines[e].ca)
                    /\ persisted' = Append(persisted, engines[e].ca.certificate_counter)
               ELSE /\ ca_file' \in FailedWrite(ca_file)
                    /\ UNCHANGED persisted
            /\ engines' = [engines EXCEPT ![e].holder = 0]
            /\ issuing' = [issuing EXCEPT ![t].pc = "done"]
            /\ UNCHANGED <<engineVars, jobVars, passVars, ca, keys_made, issued, cert,
                           cert_orig, starts, intact, identities, boot>>

NextIssuer ==
    \/ EngineNew
    \/ IssueStart
    \/ IssueLock
    \/ IssueGenerate
    \/ IssueSave

SpecIssuer == Init /\ [][NextIssuer]_vars

\* C21: issuances are serialized: no two certificates of the process carry
\* the same counter, and the counters written to ca.json never go down.
C21_IssuanceSerialized ==
    /\ \A t, u \in DOMAIN issuing :
          (t # u /\ issuing[t].counter # 0) => issuing[t].counter # issuing[u].counter
    /\ \A i, j \in DOMAIN persisted : i < j => persisted[i] <= persisted[j]

(***************************************************************************)
(* Verification reads                                                      *)
(* (safewipe-engine/src/wipe.rs verify_clear_operation,                    *)
(*  src/sanitization.rs DataSanitizer::verify_sanitization)                *)
(* The content of the device is an input: a block that is read back is a   *)
(* sequence of BlockLen bytes standing for the 4096 bytes of the buffer.   *)
(***************************************************************************)
MaxSamples == 2
BlockLen == 2
MaxMedia == 3
VerifyBlockSize == 4096
DefaultSampleCap == 2

Byte == {0, 85, 170, 255}

\* device sizes in bytes around the size of one verification block
DeviceSizes == {0, 4095, 4096, 8192}

\* one iteration of the sampling loop: the block that was read, or a seek
\* or read error (the iteration is skipped)
Sample == [read : {TRUE}, block : [1..BlockLen -> Byte]]
              \cup {[read |-> FALSE, block |-> <<>>]}

AllBytes(buffer, b) == \A i \in DOMAIN buffer : buffer[i] = b

Verdict(passed) == [result |-> "Ok", passed |-> passed]
VerifyErr == [result |-> "Err", passed |-> FALSE]
\* the thread panics: no value is returned
VerifyPanic == [result |-> "panic", passed |-> FALSE]

\* SanitizationEngine::verify_clear_operation with the blocks its reads return
verify_clear_samples(size, allow_real_devices, open_ok, samples) ==
    IF ~allow_real_devices THEN Verdict(TRUE)
    ELSE IF ~open_ok THEN Verdict(FALSE)
    ELSE IF size \div VerifyBlockSize = 0 THEN VerifyPanic
    ELSE Verdict(\A i \in DOMAIN samples :
                     samples[i].read => AllBytes(samples[i].block, 0))

\* src/sanitization.rs SanitizationPattern
SanitizationPattern ==
    [kind : {"Zeros", "Ones", "Random", "DoD5220"}, byte : {0}]
        \cup [kind : {"Custom"}, byte : Byte]

Media == UNION {[1..n -> Byte] : n \in 0..MaxMedia}

\* Option<usize>
SampleSizes == [some : BOOLEAN, value : 0..MaxMedia]

MinOf(a, b) == IF a < b THEN a ELSE b

\* DataSanitizer::verify_sanitization on a device holding media
verify_sanitization(media, expected_pattern, sample_size, open_ok) ==
    IF ~open_ok THEN VerifyErr
    ELSE LET device_size == Len(media)
             check_size == IF sample_size.some THEN sample_size.value
                           ELSE MinOf(device_size, DefaultSampleCap)
         IN  IF check_size > device_size THEN VerifyErr
             ELSE LET buffer == SubSeq(media, 1, check_size)
                  IN  CASE expected_pattern.kind = "Random" ->
                               Verdict(~AllBytes(buffer, 0) /\ ~AllBytes(buffer, 255))
                        [] expected_pattern.kind = "Zeros" -> Verdict(AllBytes(buffer, 0))
                        [] expected_pattern.kind = "Ones" -> Verdict(AllBytes(buffer, 255))
                        [] expected_pattern.kind = "Custom" ->
                               Verdict(AllBytes(buffer, expected_pattern.byte))
                        [] OTHER ->
                               Verdict(\A i \in DOMAIN buffer :
                                          buffer[i] = IF (i - 1) % 2 = 0 THEN 85 ELSE 170)

VerifyClearOperation ==
    /\ last.op = "none"
    /\ \E device_type \in DriveType, size \in DeviceSizes, allow \in BOOLEAN,
          open_ok \in BOOLEAN, samples \in [1..MaxSamples -> Sample] :
          last' = [op |-> "verify_clear_operation", device_type |-> device_type,
                   size |-> size, allow_real_devices |-> allow, open_ok |-> open_ok,
                   samples |-> samples,
                   outcome |-> verify_clear_samples(size, allow, open_ok, samples)]
    /\ UNCHANGED <<jobVars, certVars, passVars, issuerVars>>

VerifySanitization ==
    /\ last.op = "none"
    /\ \E media \in Media, expected \in SanitizationPattern, sample_size \in SampleSizes,
          open_ok \in BOOLEAN :
          last' = [op |-> "verify_sanitization", media |-> media, expected |-> expected,
                   sample_size |-> sample_size, open_ok |-> open_ok,
                   outcome |-> verify_sanitization(media, expected, sample_size, open_ok)]
    /\ UNCHANGED <<jobVars, certVars, passVars, issuerVars>>

(***************************************************************************)
(* DataSanitizer::clear (src/sanitization.rs): one overwrite of the whole  *)
(* device, as a function of the content before, the pattern and the I/O    *)
(* faults.  The write buffer holds BlockLen bytes.                         *)
(***************************************************************************)
IoFaults == [fail : {"none", "open", "seek", "write", "flush", "sync"}, at : 1..2]

\* the bytes fill_random produces, by position on the device
RandomStreams(pattern) ==
    IF pattern.kind = "Random" THEN [1..MaxMedia -> Byte] ELSE {[i \in 1..MaxMedia |-> 0]}

\* the buffer is allocated but not filled
unfilled_pattern_buffer(pattern, size, rnd) == [i \in 1..size |-> 0]

generate_pattern_buffer(pattern, size, rnd) ==
    [i \in 1..size |->
        CASE pattern.kind = "Zeros" -> 0
          [] pattern.kind = "Ones" -> 255
          [] pattern.kind = "Random" -> rnd[i]
          [] pattern.kind = "Custom" -> pattern.byte
          [] OTHER -> IF (i - 1) % 2 = 0 THEN 85 ELSE 170]

\* write_all(&buffer[..write_size]) at offset bytes_written
WriteAt(media, bytes_written, chunk) ==
    [i \in 1..Len(media) |->
        IF i > bytes_written /\ i <= bytes_written + Len(chunk)
        THEN chunk[i - bytes_written] ELSE media[i]]

\* the loop of sanitize_device_sequential: [ok, media]
RECURSIVE write_loop(_, _, _, _, _, _, _)
write_loop(media, pattern, rnd, bytes_written, device_size, writes, f) ==
    IF ~(bytes_written < device_size) THEN [ok |-> TRUE, media |-> media]
    ELSE LET write_size == MinOf(BlockLen, device_size - bytes_written)
             fixed == generate_pattern_buffer(pattern, BlockLen, rnd)
             buffer == IF pattern.kind = "Random"
                       THEN [i \in 1..BlockLen |-> rnd[MinOf(bytes_written + i, MaxMedia)]]
                       ELSE fixed
         IN  IF f.fail = "write" /\ f.at = writes + 1
             THEN [ok |-> FALSE, media |-> media]
             ELSE write_loop(WriteAt(media, bytes_written, SubSeq(buffer, 1, write_size)),
                             pattern, rnd, bytes_written + write_size, device_size,
                             writes + 1, f)

sanitize_device_sequential(media, pattern, rnd, f) ==
    IF f.fail = "seek" THEN [ok |-> FALSE, media |-> media]
    ELSE LET w == write_loop(media, pattern, rnd, 0, Len(media), 0, f)
         IN  IF ~w.ok THEN w
             ELSE [ok |-> f.fail \notin {"flush", "sync"}, media |-> w.media]

\* DataSanitizer::clear: sanitize_device_with_size with the one pattern
DataSanitizer_clear(media, pattern, rnd, f) ==
    IF f.fail = "open" THEN [ok |-> FALSE, media |-> media]
    ELSE sanitize_device_sequential(media, pattern, rnd, f)

Clear ==
    /\ last.op = "none"
    /\ \E media \in Media, pattern \in SanitizationPattern, f \in IoFaults :
          \E rnd \in RandomStreams(pattern) :
             LET r == DataSanitizer_clear(media, pattern, rnd, f)
             IN  last' = [op |-> "clear", media |-> media, pattern |-> pattern,
                          result |-> IF r.ok THEN "Ok" ELSE "Err",
                          media_after |-> r.media]
    /\ UNCHANGED <<jobVars, certVars, passVars, issuerVars>>

NextVerify ==
    \/ VerifyClearOperation
    \/ VerifySanitization
    \/ Clear
    \/ Return

SpecVerify == Init /\ [][NextVerify]_vars

\* the pattern of the final overwrite of a clear: the fixed byte, or random
FinalPatternFixed(device_type) == ClearPatternFor([device_type |-> device_type]) = "Zeros"

\* the blocks a verify_clear_operation call has read
SampledBlocks == {last.samples[i].block : i \in {j \in DOMAIN last.samples : last.samples[j].read}}

NoBlankBlock(blocks) == \A b \in blocks : ~AllBytes(b, 0) /\ ~AllBytes(b, 255)

\* C22: the verdict of a verification follows the pattern of the final
\* overwrite: a fixed byte passes exactly when every sampled byte equals
\* it, random data passes exactly when no sampled block is all zeros or
\* all ones.
C22_VerdictFollowsFinalPattern ==
    /\ (/\ last.op = "verify_clear_operation"
        /\ last.allow_real_devices /\ last.open_ok
        /\ last.outcome.result = "Ok")
       => (last.outcome.passed
             <=> IF FinalPatternFixed(last.device_type)
                 THEN \A b \in SampledBlocks : AllBytes(b, 0)
                 ELSE NoBlankBlock(SampledBlocks))
    /\ (/\ last.op = "verify_sanitization"
        /\ last.outcome.result = "Ok"
        /\ last.expected.kind # "DoD5220")
       => LET buffer == SubSeq(last.media, 1,
                               IF last.sample_size.some THEN last.sample_size.value
                               ELSE MinOf(Len(last.media), DefaultSampleCap))
          IN  last.outcome.passed
                <=> CASE last.expected.kind = "Random" -> NoBlankBlock({buffer})
                      [] last.expected.kind = "Zeros" -> AllBytes(buffer, 0)
                      [] last.expected.kind = "Ones" -> AllBytes(buffer, 255)
                      [] OTHER -> AllBytes(buffer, last.expected.byte)

\* Option::None of the sample size
NoSampleSize == [some |-> FALSE, value |-> 0]

\* the pattern writes one byte value
FixedPattern(pattern) == pattern.kind \in {"Zeros", "Ones", "Custom"}

FixedByte(pattern) ==
    CASE pattern.kind = "Zeros" -> 0
      [] pattern.kind = "Ones" -> 255
      [] OTHER -> pattern.byte

\* C23: after an overwrite with a fixed byte returned success, every byte
\* of the device equals that byte, and a verification for the same pattern
\* passes.
C23_FixedPassThenVerified ==
    (last.op = "clear" /\ last.result = "Ok" /\ FixedPattern(last.pattern))
       => /\ AllBytes(last.media_after, FixedByte(last.pattern))
          /\ verify_sanitization(last.media_after, last.pattern, NoSampleSize, TRUE)
                = Verdict(TRUE)

\* a device longer than one buffer, holding other data, was overwritten
C23_Witness ==
    /\ last.op = "clear" /\ last.result = "Ok" /\ FixedPattern(last.pattern)
    /\ Len(last.media) > BlockLen
    /\ \A i \in DOMAIN last.media : last.media[i] # FixedByte(last.pattern)
    /\ AllBytes(last.media_after, FixedByte(last.pattern))

\* C27: on a device of length zero the verification terminates normally
\* and returns passed = true, having taken no sample.
C27_ZeroLengthVerifies ==
    /\ (last.op = "verify_clear_operation" /\ last.size = 0 /\ last.open_ok)
          => last.outcome = Verdict(TRUE)
    /\ (last.op = "verify_sanitization" /\ Len(last.media) = 0 /\ last.open_ok
           /\ ~last.sample_size.some)
          => last.outcome = Verdict(TRUE)

(***************************************************************************)
(* The drive probe and the host protected area                             *)
(* (src/hardware/drive_interface.rs, src/hpa_dco.rs).  What the drive      *)
(* answers is a Drives record:                                             *)
(*   ext:       word 83 bit 10, 48-bit addressing                          *)
(*   max:       the user-addressable sectors of IDENTIFY DEVICE            *)
(*   native_ok: READ NATIVE MAX ADDRESS succeeds                           *)
(*   native:    the address it returns                                     *)
(*   set_max:   SET MAX ADDRESS fails, is applied, or is accepted without  *)
(*              effect on the identify data                                *)
(*   frozen:    word 128 bit 3, security frozen                            *)
(***************************************************************************)
Lbas == {0, 1, 2, 65536}

Drives ==
    [ext : BOOLEAN, max : Lbas, native_ok : BOOLEAN, native : Lbas,
     set_max : {"failed", "applied", "ignored"}, frozen : BOOLEAN]

\* the words of IDENTIFY DEVICE that hold the capacity: 100 and 101 with
\* 48-bit addressing, 60 and 61 without; the other capacity words are zero
IdentifyWords(drive) ==
    [w83_ext |-> drive.ext,
     w60 |-> IF drive.ext THEN 0 ELSE drive.max % 65536,
     w61 |-> IF drive.ext THEN 0 ELSE drive.max \div 65536,
     w100 |-> IF drive.ext THEN drive.max % 65536 ELSE 0,
     w101 |-> IF drive.ext THEN drive.max \div 65536 ELSE 0,
     w128_frozen |-> drive.frozen]

\* the task file READ NATIVE MAX ADDRESS leaves
TaskFile(lba) == <<lba % 256, (lba \div 256) % 256, (lba \div 65536) % 256>>

\* (words[101] << 16) | words[100], or (words[61] << 16) | words[60]
user_max_lba(words) ==
    IF words.w83_ext THEN words.w101 * 65536 + words.w100
    ELSE words.w61 * 65536 + words.w60

\* Ok(lba) as [ok, lba]
read_native_max_address(drive) ==
    IF ~drive.native_ok THEN [ok |-> FALSE, lba |-> 0]
    ELSE LET task_file == TaskFile(drive.native)
         IN  [ok |-> TRUE,
              lba |-> task_file[3] * 65536 + task_file[2] * 256 + task_file[1]]

SectorBytes == 512

parse_drive_geometry(drive) ==
    LET user_capacity == user_max_lba(IdentifyWords(drive))
        n == read_native_max_address(drive)
        native_capacity == IF n.ok THEN n.lba ELSE user_capacity
        has_hpa == native_capacity > user_capacity
    IN  [total_sectors |-> native_capacity,
         user_capacity |-> user_capacity * SectorBytes,
         native_capacity |-> native_capacity * SectorBytes,
         has_hpa |-> has_hpa,
         hpa_size |-> IF has_hpa THEN (native_capacity - user_capacity) * SectorBytes
                      ELSE 0]

\* HpaDcoDetector::detect_hpa
detect_hpa(drive) ==
    LET user == user_max_lba(IdentifyWords(drive))
        n == read_native_max_address(drive)
    IN  IF ~n.ok
        THEN [present |-> FALSE, user_max_lba |-> user, native_max_lba |-> user,
              hidden_sectors |-> 0]
        ELSE LET hidden_sectors == IF n.lba > user THEN n.lba - user ELSE 0
             IN  [present |-> hidden_sectors > 0, user_max_lba |-> user,
                  native_max_lba |-> n.lba, hidden_sectors |-> hidden_sectors]

\* the drive after SET MAX ADDRESS lba
set_max_address(drive, lba) ==
    IF drive.set_max = "applied" THEN [drive EXCEPT !.max = lba] ELSE drive

\* Ok(b) as [ok, value], with the drive the call leaves
HpaResult(ok, value, drive) == [ok |-> ok, value |-> value, drive |-> drive]

\* DriveInterface::unlock_hpa
unlock_hpa(drive) ==
    LET current_max == user_max_lba(IdentifyWords(drive))
        n == read_native_max_address(drive)
    IN  IF ~n.ok THEN HpaResult(FALSE, FALSE, drive)
        ELSE IF n.lba > current_max
        THEN IF drive.set_max = "failed" THEN HpaResult(FALSE, FALSE, drive)
             ELSE HpaResult(TRUE, TRUE, set_max_address(drive, n.lba))
        ELSE HpaResult(TRUE, FALSE, drive)

\* HpaDcoDetector::remove_hpa_thoroughly
remove_hpa_thoroughly(drive) ==
    LET current_max_lba == user_max_lba(IdentifyWords(drive))
        n == read_native_max_address(drive)
    IN  IF ~n.ok THEN HpaResult(FALSE, FALSE, drive)
        ELSE IF n.lba > current_max_lba
        THEN IF drive.set_max = "failed" THEN HpaResult(FALSE, FALSE, drive)
             ELSE LET after == set_max_address(drive, n.lba)
                      new_current_max == user_max_lba(IdentifyWords(after))
                  IN  HpaResult(TRUE, new_current_max = n.lba, after)
        ELSE HpaResult(TRUE, TRUE, drive)

ParseDriveGeometry ==
    /\ last.op = "none"
    /\ \E drive \in Drives :
          last' = [op |-> "parse_drive_geometry", drive |-> drive,
                   geometry |-> parse_drive_geometry(drive)]
    /\ UNCHANGED <<jobVars, certVars, passVars, issuerVars>>

DetectHpa ==
    /\ last.op = "none"
    /\ \E drive \in Drives :
          last' = [op |-> "detect_hpa", drive |-> drive, hpa_info |-> detect_hpa(drive)]
    /\ UNCHANGED <<jobVars, certVars, passVars, issuerVars>>

UnlockHpa ==
    /\ last.op = "none"
    /\ \E drive \in Drives :
          last' = [op |-> "unlock_hpa", drive |-> drive, result |-> unlock_hpa(drive)]
    /\ UNCHANGED <<jobVars, certVars, passVars, issuerVars>>

RemoveHpaThoroughly ==
    /\ last.op = "none"
    /\ \E drive \in Drives :
          last' = [op |-> "remove_hpa_thoroughly", drive |-> drive,
                   result |-> remove_hpa_thoroughly(drive)]
    /\ UNCHANGED <<jobVars, certVars, passVars, issuerVars>>

\* HpaDcoDetector::secure_erase: the erase itself is not implemented
secure_erase(drive) ==
    IF IdentifyWords(drive).w128_frozen THEN Commands(FALSE, <<>>)
    ELSE Commands(TRUE, <<>>)

SecureErase ==
    /\ last.op = "none"
    /\ \E drive \in Drives :
          last' = [op |-> "secure_erase", frozen |-> drive.frozen,
                   allow_real_devices |-> TRUE, outcome |-> secure_erase(drive)]
    /\ UNCHANGED <<jobVars, certVars, passVars, issuerVars>>

\* SanitizationEngine::execute_ata_secure_erase on a drive that is frozen
\* or not; the Device record does not hold the security state
ExecuteAtaSecureErase ==
    /\ last.op = "none"
    /\ \E d \in Device, allow \in BOOLEAN, e \in Env, frozen \in BOOLEAN :
          /\ d.device_type = "HDD" /\ d.size = MaxSize /\ ~d.is_system_drive
          /\ supports_secure_erase(d)
          /\ e.fail = "none" /\ e.at = 1 /\ e.verify = "clean"
          /\ last' = [op |-> "execute_ata_secure_erase", frozen |-> frozen,
                      allow_real_devices |-> allow,
                      outcome |-> execute_ata_secure_erase(d, allow, e)]
    /\ UNCHANGED <<jobVars, certVars, passVars, issuerVars>>

NextProbe ==
    \/ ParseDriveGeometry
    \/ DetectHpa
    \/ UnlockHpa
    \/ RemoveHpaThoroughly
    \/ SecureErase
    \/ ExecuteAtaSecureErase
    \/ Return

SpecProbe == Init /\ [][NextProbe]_vars

\* C24: every record the probe produces has user_capacity <= native_capacity,
\* whatever the identify data and READ NATIVE MAX ADDRESS return.
C24_UserWithinNative ==
    /\ last.op = "parse_drive_geometry"
          => last.geometry.user_capacity <= last.geometry.native_capacity
    /\ last.op = "detect_hpa"
          => last.hpa_info.user_max_lba <= last.hpa_info.native_max_lba

\* C25: after a removal of the host protected area that reports success, a
\* new probe of the drive reads a user maximum equal to the native maximum.
C25_RemovalRestoresNative ==
    (/\ last.op \in {"unlock_hpa", "remove_hpa_thoroughly"}
     /\ last.result.ok /\ last.result.value)
       => detect_hpa(last.result.drive).user_max_lba
             = detect_hpa(last.result.drive).native_max_lba

\* C26: a secure erase of a frozen drive is refused before any command is
\* sent to the drive.
C26_FrozenDriveRefused ==
    (/\ last.op \in {"secure_erase", "execute_ata_secure_erase"}
     /\ last.allow_real_devices /\ last.frozen)
       => ~last.outcome.ok /\ last.outcome.cmds = <<>>

(***************************************************************************)
(* Device ids of SafeWipeClient (safewipe-sdk/src/lib.rs).  Every scan     *)
(* converts the detected devices with DeviceInfo::from, which draws the id *)
(* from Uuid::new_v4.  The attached devices do not change between the      *)
(* calls; `last` holds the listing the caller received.                    *)
(***************************************************************************)
MaxUuids == 3
MaxAttached == 2

\* the first eight characters of a random uuid
DeviceIds == 1..MaxUuids

Attachments == {a \in SUBSET Paths : a # {} /\ Cardinality(a) <= MaxAttached}

\* scan_devices: the DeviceInfo of every attached device, as path -> id
Scans(attached) == [attached -> DeviceIds]

\* find_device_by_id over one scan: the paths find() can return
find_device_by_id(scan, device_id) == {p \in DOMAIN scan : scan[p] = device_id}

NotFound == [success |-> FALSE, path |-> "None", error |-> "Device not found"]
Found(path) == [success |-> TRUE, path |-> path, error |-> "None"]

\* the answers of a lookup on a new scan
Lookups(attached, device_id) ==
    UNION {IF find_device_by_id(scan, device_id) = {} THEN {NotFound}
           ELSE {Found(p) : p \in find_device_by_id(scan, device_id)} :
           scan \in Scans(attached)}

ListDevices ==
    /\ last.op = "none"
    /\ \E attached \in Attachments :
          \E scan \in Scans(attached) :
             last' = [op |-> "list_devices", attached |-> attached, listing |-> scan]
    /\ UNCHANGED <<jobVars, certVars, passVars, issuerVars>>

\* get_device_info with the id the listing gave for one of its devices
GetDeviceInfo ==
    /\ last.op = "list_devices"
    /\ \E picked \in last.attached :
          \E response \in Lookups(last.attached, last.listing[picked]) :
             last' = [op |-> "get_device_info", attached |-> last.attached,
                      listing |-> last.listing, picked |-> picked,
                      response |-> response]
    /\ UNCHANGED <<jobVars, certVars, passVars, issuerVars>>

\* the lookup that start_wipe begins with
StartWipeLookup ==
    /\ last.op = "list_devices"
    /\ \E picked \in last.attached :
          \E response \in Lookups(last.attached, last.listing[picked]) :
             last' = [op |-> "start_wipe", attached |-> last.attached,
                      listing |-> last.listing, picked |-> picked,
                      response |-> response]
    /\ UNCHANGED <<jobVars, certVars, passVars, issuerVars>>

NextLookup ==
    \/ ListDevices
    \/ GetDeviceInfo
    \/ StartWipeLookup
    \/ Return

SpecLookup == Init /\ [][NextLookup]_vars

\* C28: while the attached devices do not change, the id list_devices gave
\* for a device identifies that device in a later get_device_info or
\* start_wipe.
C28_DeviceIdStable ==
    last.op \in {"get_device_info", "start_wipe"}
       => last.response = Found(last.picked)

(***************************************************************************)
(* SafeWipeSDK with a waiting caller (safewipe-engine/src/sdk.rs).  The    *)
(* spawned tasks are scheduled by the runtime, and the polling loop of     *)
(* wait_for_operation is driven by its timer: these steps are taken under  *)
(* weak fairness.  `last` holds the wait_for_operation call in progress.   *)
(***************************************************************************)
MaxWaitTicks == 2
DefaultMaxConcurrentOperations == 4

\* SDKConfig: the default, and a configuration that admits one operation
SDKConfig == [max_concurrent_operations : {1, DefaultMaxConcurrentOperations}]

\* SafeWipeSDK::with_config: the fields of the new instance
with_config(config) == [active_operations |-> <<>>, spawned |-> <<>>]

\* the condition under which wait_for_operation returns the report it read
ReportIsFinal(report) ==
    \/ report.overall_success
    \/ Len(report.results) = 0
    \/ report.results[1].status \notin {"InProgress", "Starting"}

WaitForOperation ==
    /\ last.op = "none"
    /\ \E id \in DOMAIN spawned :
          last' = [op |-> "wait_for_operation", operation_id |-> id, ticks |-> 0,
                   pc |-> "polling", ok |-> FALSE, report |-> NoResult]
    /\ UNCHANGED <<jobVars, certVars, passVars, issuerVars>>

\* one tick of the interval: get_operation_status, then return or go on;
\* after the last tick the call returns OperationNotFound
WaitTick ==
    /\ last.op = "wait_for_operation"
    /\ last.pc = "polling"
    /\ LET id == last.operation_id
       IN  IF id \in DOMAIN active_operations /\ ReportIsFinal(active_operations[id])
           THEN last' = [last EXCEPT !.pc = "returned", !.ok = TRUE,
                                     !.report = active_operations[id],
                                     !.ticks = @ + 1]
           ELSE IF last.ticks + 1 = MaxWaitTicks
           THEN last' = [last EXCEPT !.pc = "returned", !.ticks = @ + 1]
           ELSE last' = [last EXCEPT !.ticks = @ + 1]
    /\ UNCHANGED <<jobVars, certVars, passVars, issuerVars>>

\* the plans of the waiting caller: a disk and the system drive
SdkPlans ==
    {create_sanitization_plan(<<create_device_from_disk(p, MaxSize)>>, m) :
        p \in {"/dev/sda", "C:"}, m \in {"Clear"}}

SdkExecuteSanitizationPlan ==
    /\ ExecuteSanitizationPlan
    /\ spawned'[Len(spawned')].run.plan \in SdkPlans

NextSdk ==
    \/ SdkExecuteSanitizationPlan
    \/ SpawnedSanitize
    \/ SpawnedStep
    \/ SpawnedInsert
    \/ SdkCancelOperation
    \/ WaitForOperation
    \/ WaitTick
    \/ Return

\* a step of a spawned task
SpawnedTask == SpawnedSanitize \/ SpawnedStep \/ SpawnedInsert

SpecSdk ==
    /\ Init /\ [][NextSdk]_vars
    /\ WF_vars(SpawnedTask)
    /\ WF_vars(WaitTick)

\* the operation was cancelled: its report was inserted and removed
SdkCancelled(id) ==
    id \in DOMAIN spawned /\ spawned[id].pc = "done" /\ id \notin DOMAIN active_operations

\* execute_sanitization_plan returned the id and the task has not ended
Started(id) == id \in DOMAIN spawned /\ spawned[id].pc # "done"

\* get_operation_status shows the final report of the operation
Visible(id) ==
    /\ id \in DOMAIN active_operations
    /\ id \in DOMAIN spawned
    /\ active_operations[id] = SanitizationReport(spawned[id].run)
    /\ RunFinished(spawned[id].run)

RunningOperations == {i \in DOMAIN spawned : spawned[i].pc # "done"}

\* C30: on an instance built by with_config(config), the operations running
\* at the same time never exceed config.max_concurrent_operations.
C30_ConcurrencyBounded ==
    \A config \in SDKConfig :
        (with_config(config).active_operations = <<>>)
           => Cardinality(RunningOperations) <= config.max_concurrent_operations

====
